---- MODULE Spec2Model ----
(***************************************************************************)
(* Model of rs.c, the CODAR Range Series dump/gen utility.                 *)
(*                                                                         *)
(* rsdump: binary RS file -> linked list of nodes -> text description.     *)
(* rsgen : text description -> linked list of nodes -> binary RS file.     *)
(*                                                                         *)
(* A file is a sequence of bytes (0..255).  A text file is a sequence of   *)
(* lines.  The linked list is a sequence of node records.  Each top-level  *)
(* C function is an operator computed the way the code computes it; the    *)
(* actions apply rsdump, rsgen and fixup_sizes to inputs drawn from        *)
(* bounded sets.                                                           *)
(***************************************************************************)
EXTENDS Integers, Sequences, FiniteSets, TLC

VARIABLES
    pc,           \* phase of the run: "input", "dumped", "crashed", "regen",
                  \* "genned", "sized"
    little,       \* Global_flag_little_endian
    buf,          \* the binary input file (filedata)
    just_header,  \* rsdump's -h flag
    list,         \* the linked list of nodes
    text,         \* the text file (written by rsdump, read by rsgen)
    out,          \* bytes written to the binary output file by rs_write
    err,          \* status returned by rsdump
    gen_err,      \* status returned by rsgen
    fix_err,      \* status returned by fixup_sizes
    list0,        \* the list as handed to fixup_sizes (before it is mutated)
    wrote,        \* rs_write was entered
    endlist,      \* the memory of the nodes behind the root when rsgen returns
    overrun,      \* the decoder accessed a byte outside filedata
    stack         \* the activations of parse_block, the innermost last

vars == <<pc, little, buf, just_header, list, text, out, err, gen_err, fix_err,
          list0, wrote, endlist, overrun, stack>>

----------------------------------------------------------------------------
(* Key values (fourcc codes) and sizes                                      *)

KEY_AQFT == 1095845460
KEY_HEAD == 1212498244
KEY_sign == 1936287598
KEY_mcda == 1835230305
KEY_dbrf == 1684173414
KEY_cnst == 1668182900
KEY_hasi == 1751217001
KEY_swep == 1937204592
KEY_fbin == 1717725550
KEY_BODY == 1112491097
KEY_rtag == 1920229735
KEY_gps1 == 1735422769
KEY_indx == 1768842360
KEY_scal == 1935892844
KEY_afft == 1634100852
KEY_ifft == 1768318580
KEY_END  == 1162757152

\* a four-character code that is in no dictionary entry ("XXXX")
KEY_XXXX == 88 * 16777216 + 88 * 65536 + 88 * 256 + 88

\* sizeof(struct block_header)
HEADER_SIZE == 8

\* node->data of a node that does not point into filedata
NoPtr == 0 - 1

----------------------------------------------------------------------------
(* Bytes and byte order                                                     *)

Min(a, b) == IF a < b THEN a ELSE b

Reverse(s) == [i \in 1..Len(s) |-> s[Len(s) + 1 - i]]

Zeros(n) == [i \in 1..n |-> 0]

RECURSIVE Sum(_)
Sum(s) == IF s = <<>> THEN 0 ELSE Head(s) + Sum(Tail(s))

\* the four bytes of v, most significant first (the wire image of a 32-bit value)
Bytes4(v) == <<v \div 16777216, (v \div 65536) % 256, (v \div 256) % 256, v % 256>>

BE32(b) == b[1] * 16777216 + b[2] * 65536 + b[3] * 256 + b[4]

\* the value of a 32-bit object whose memory image is mem, on this host
Load32(mem) == IF little THEN BE32(Reverse(mem)) ELSE BE32(mem)

\* the memory image of the 32-bit value v, on this host
Store32(v) == IF little THEN Reverse(Bytes4(v)) ELSE Bytes4(v)

\* swapcopy2/4/8 reverse the bytes of an object of that size; other sizes are
\* left alone
swapcopy(mem) == IF Len(mem) \in {2, 4, 8} THEN Reverse(mem) ELSE mem

\* endian_fixup: byte swapping when the host is little endian
endian_fixup(mem) == IF little THEN swapcopy(mem) ELSE mem

----------------------------------------------------------------------------
(* The function dictionary                                                  *)

Global_function_dictionary ==
    << KEY_AQFT, KEY_HEAD, KEY_sign, KEY_mcda, KEY_dbrf, KEY_cnst, KEY_hasi,
       KEY_swep, KEY_fbin, KEY_BODY, KEY_rtag, KEY_gps1, KEY_indx, KEY_scal,
       KEY_afft, KEY_ifft, KEY_END >>

\* find_block_functions: TRUE iff an entry is found (zero is never found)
find_block_functions(key) ==
    /\ key # 0
    /\ \E i \in 1..Len(Global_function_dictionary) :
           Global_function_dictionary[i] = key

superblock(key) == key \in {KEY_AQFT, KEY_HEAD, KEY_BODY, KEY_END}

\* sizeof of the struct a leaf's data block is cast to (the size every
\* fixup_data_xxxx and dump_block_xxxx compares node->size with)
StructSize(key) ==
    CASE key = KEY_sign -> 208
      [] key = KEY_mcda -> 4
      [] key = KEY_dbrf -> 8
      [] key = KEY_cnst -> 16
      [] key = KEY_hasi -> 4
      [] key = KEY_swep -> 32
      [] key = KEY_fbin -> 8
      [] key = KEY_rtag -> 4
      [] key = KEY_gps1 -> 28
      [] key = KEY_indx -> 4
      [] key = KEY_scal -> 16
      [] key = KEY_afft -> 8
      [] key = KEY_ifft -> 8
      [] OTHER -> 0

\* the widths of the objects a fixup_data_xxxx function passes to
\* endian_fixup, in memory order, for a block of this size
FixupWidths(key, size) ==
    CASE key = KEY_sign -> <<4, 4, 4, 4>>
      [] key = KEY_mcda -> <<4>>
      [] key = KEY_dbrf -> <<8>>
      [] key = KEY_cnst -> <<4, 4, 4, 4>>
      [] key = KEY_hasi -> <<>>
      [] key = KEY_swep -> <<4, 8, 8, 8, 4>>
      [] key = KEY_fbin -> <<4, 4>>
      [] key = KEY_rtag -> <<4>>
      [] key = KEY_gps1 -> <<8, 8, 8, 4>>
      [] key = KEY_indx -> <<4>>
      [] key = KEY_scal -> <<8, 8>>
      [] key \in {KEY_afft, KEY_ifft} -> [i \in 1..(2 * (size \div 8)) |-> 4]
      [] OTHER -> <<>>

\* a variant whose fixup functions swap the fields that lie within the block
\* when the block is smaller than its struct
fixup_block_whole_fields(key, size) ==
    IF ~find_block_functions(key) THEN [err |-> 1, widths |-> <<>>]
    ELSE IF superblock(key) THEN [err |-> 0, widths |-> <<>>]
    ELSE IF size < StructSize(key)
    THEN [err |-> 1,
          widths |-> SubSeq(FixupWidths(key, StructSize(key)), 1,
                            Cardinality({k \in 1..Len(FixupWidths(key, StructSize(key))) :
                                Sum(SubSeq(FixupWidths(key, StructSize(key)), 1, k)) <= size}))]
    ELSE [err |-> 0, widths |-> FixupWidths(key, size)]

\* fixup_block: the status of the fixup (1: no dictionary entry, or the block
\* is smaller than its struct) and the widths it swapped
fixup_block(key, size) ==
    IF ~find_block_functions(key) THEN [err |-> 1, widths |-> <<>>]
    ELSE IF superblock(key) THEN [err |-> 0, widths |-> <<>>]
    ELSE IF size < StructSize(key) THEN [err |-> 1, widths |-> <<>>]
    ELSE [err |-> 0, widths |-> FixupWidths(key, size)]

\* endian_fixup applied to consecutive objects of the given widths at the
\* start of mem
RECURSIVE SwapFields(_, _)
SwapFields(mem, widths) ==
    IF widths = <<>> THEN mem
    ELSE LET w == Head(widths)
         IN  endian_fixup(SubSeq(mem, 1, w))
                 \o SwapFields(SubSeq(mem, w + 1, Len(mem)), Tail(widths))

----------------------------------------------------------------------------
(* The binary decoder (rsdump)                                              *)

\* A node of the linked list.  ptr is node->data as an offset into filedata
\* (NoPtr for a block that was malloc'ed or has no data); data is the memory
\* the leaf's data pointer designates, node->size bytes of it.  A superblock's
\* data is never read through the node, so none is kept for it.
Node(key, size, ptr, data) ==
    [key |-> key, size |-> size, ptr |-> ptr, data |-> data]

\* check_header: 1 unless the first key of the buffer is AQFT
check_header(buffer) ==
    IF Load32(endian_fixup(SubSeq(buffer, 1, 4))) # KEY_AQFT THEN 1 ELSE 0

\* read_binary_file: fread delivers the whole file; the header is checked
\* only when more than sizeof(struct block_header) bytes were read
read_binary_file(buffer) ==
    IF Len(buffer) > HEADER_SIZE
    THEN (IF check_header(buffer) # 0 THEN 1 ELSE 0)
    ELSE 0

\* a variant that does not step over the payload of a superblock after
\* parsing it
RECURSIVE parse_block_no_skip(_, _, _, _)
parse_block_no_skip(buffer, off, length, wrapped) ==
    IF ~wrapped /\ length = 0
    THEN [nodes |-> <<>>, oob |-> FALSE, short |-> FALSE]
    ELSE IF off + HEADER_SIZE > Len(buffer)
    THEN [nodes |-> <<>>, oob |-> TRUE, short |-> ~wrapped /\ length < HEADER_SIZE]
    ELSE
    LET key      == Load32(endian_fixup(SubSeq(buffer, off + 1, off + 4)))
        declared == Load32(endian_fixup(SubSeq(buffer, off + 5, off + 8)))
        short    == ~wrapped /\ length < HEADER_SIZE
        wraps    == wrapped \/ short
        left     == IF wraps THEN 0 ELSE length - HEADER_SIZE
        size     == IF ~wraps /\ declared > left THEN left ELSE declared
        data     == off + HEADER_SIZE
    IN  IF superblock(key)
        THEN LET node  == Node(key, size, data, <<>>)
                 child == parse_block_no_skip(buffer, data, size, FALSE)
             IN  IF child.oob
                 THEN [nodes |-> <<node>> \o child.nodes, oob |-> TRUE,
                       short |-> short \/ child.short]
                 ELSE LET rest == parse_block_no_skip(buffer, data, left, wraps)
                      IN  [nodes |-> <<node>> \o child.nodes \o rest.nodes,
                           oob   |-> rest.oob,
                           short |-> short \/ child.short \/ rest.short]
        ELSE LET fix   == fixup_block(key, size)
                 mem   == SubSeq(buffer, data + 1, Min(data + size, Len(buffer)))
                 past  == data + Sum(fix.widths) > Len(buffer)
                 node  == Node(key, size, data,
                               IF past THEN mem ELSE SwapFields(mem, fix.widths))
             IN  IF past
                 THEN [nodes |-> <<node>>, oob |-> TRUE, short |-> short]
                 ELSE LET rest == parse_block_no_skip(buffer, data + size, left - size, wraps)
                      IN  [nodes |-> <<node>> \o rest.nodes,
                           oob   |-> rest.oob,
                           short |-> short \/ rest.short]

\* parse_block on the bytes of buffer from offset off on, with `length` bytes
\* said to remain.  length is an unsigned long: subtracting the header size
\* from a length below 8 wraps around to a value no block size exceeds and no
\* file exhausts, which `wrapped` records.  The result has the nodes appended
\* to the list in order, oob (a byte outside filedata was accessed, from where
\* on the behaviour is undefined) and short (a header was read with fewer than
\* 8 bytes remaining).
RECURSIVE parse_block(_, _, _, _)
parse_block(buffer, off, length, wrapped) ==
    IF ~wrapped /\ length = 0
    THEN [nodes |-> <<>>, oob |-> FALSE, short |-> FALSE]
    ELSE IF off + HEADER_SIZE > Len(buffer)
    THEN [nodes |-> <<>>, oob |-> TRUE, short |-> ~wrapped /\ length < HEADER_SIZE]
    ELSE
    LET key      == Load32(endian_fixup(SubSeq(buffer, off + 1, off + 4)))
        declared == Load32(endian_fixup(SubSeq(buffer, off + 5, off + 8)))
        short    == ~wrapped /\ length < HEADER_SIZE
        wraps    == wrapped \/ short
        left     == IF wraps THEN 0 ELSE length - HEADER_SIZE
        size     == IF ~wraps /\ declared > left THEN left ELSE declared
        data     == off + HEADER_SIZE
    IN  IF superblock(key)
        THEN LET node  == Node(key, size, data, <<>>)
                 child == parse_block(buffer, data, size, FALSE)
             IN  IF child.oob
                 THEN [nodes |-> <<node>> \o child.nodes, oob |-> TRUE,
                       short |-> short \/ child.short]
                 ELSE LET rest == parse_block(buffer, data + size, left - size, wraps)
                      IN  [nodes |-> <<node>> \o child.nodes \o rest.nodes,
                           oob   |-> rest.oob,
                           short |-> short \/ child.short \/ rest.short]
        ELSE LET fix   == fixup_block(key, size)
                 mem   == SubSeq(buffer, data + 1, Min(data + size, Len(buffer)))
                 past  == data + Sum(fix.widths) > Len(buffer)
                 node  == Node(key, size, data,
                               IF past THEN mem ELSE SwapFields(mem, fix.widths))
             IN  IF past
                 THEN [nodes |-> <<node>>, oob |-> TRUE, short |-> short]
                 ELSE LET rest == parse_block(buffer, data + size, left - size, wraps)
                      IN  [nodes |-> <<node>> \o rest.nodes,
                           oob   |-> rest.oob,
                           short |-> short \/ rest.short]

\* parse_file: the list parse_block builds behind the dummy root.  For an
\* empty buffer parse_block appends nothing and dummy_root.next is returned
\* uninitialized, which `uninit` records.
parse_file(buffer) ==
    LET p == parse_block(buffer, 0, Len(buffer), FALSE)
    IN  [nodes |-> p.nodes, oob |-> p.oob, short |-> p.short,
         uninit |-> Len(buffer) = 0]

----------------------------------------------------------------------------
(* 32-bit words beyond the range of the model checker's integers            *)

\* A uint32_t as two 16-bit halves <<high, low>>.
Word(n) == <<n \div 65536, n % 65536>>

Add32(a, b) ==
    LET lo == a[2] + b[2]
        hi == a[1] + b[1] + (lo \div 65536)
    IN  <<hi % 65536, lo % 65536>>

Neg32(a) == Add32(<<65535 - a[1], 65535 - a[2]>>, <<0, 1>>)

Less32(a, b) == a[1] < b[1] \/ (a[1] = b[1] /\ a[2] < b[2])

\* the word whose memory image on this host is mem, and the memory image of
\* a word
WordAt(mem) ==
    LET be == IF little THEN Reverse(mem) ELSE mem
    IN  <<be[1] * 256 + be[2], be[3] * 256 + be[4]>>

WordBytes(w) ==
    LET be == <<w[1] \div 256, w[1] % 256, w[2] \div 256, w[2] % 256>>
    IN  IF little THEN Reverse(be) ELSE be

\* the offset between the 1904 epoch of the file and the 1970 epoch of the
\* text
EPOCH_OFFSET == 2082844800

----------------------------------------------------------------------------
(* The text form                                                            *)

\* A line of the text file, after chomp.
\*   raw   : its characters, no colon among them (a blank line has none)
\*   param : label:value; val is <<>> when nothing follows the colon and
\*           <<token>> otherwise
\*   data  : the line hexdump writes, "data:" and " %02x" for each byte of val
\*   iq    : a sample line "%3d % lf % lf"; val is <<index, I text, Q text>>
\* The token of a value is the text of the value:
\*   num : a number; w is its magnitude modulo 2^32, neg its minus sign, big
\*         whether the magnitude exceeds 2^32 - 1 (a negative time_t printed
\*         with %lu has the 32 upper bits set)
\*   str : characters that start no number
\*   dbl : a decimal fraction, by its digits
RawLine(chars) == [t |-> "raw", chars |-> chars, label |-> "", val |-> <<>>]

ParamLine(label, val) == [t |-> "param", chars |-> <<>>, label |-> label, val |-> val]

DataLine(bytes) == [t |-> "data", chars |-> <<>>, label |-> "data", val |-> bytes]

IqLine(index, itext, qtext) ==
    [t |-> "iq", chars |-> <<>>, label |-> "", val |-> <<index, itext, qtext>>]

BlankLine == RawLine(<<>>)

Num(neg, big, w) == [k |-> "num", neg |-> neg, big |-> big, w |-> w]

Str(chars) == [k |-> "str", s |-> chars]

Dbl(digits) == [k |-> "dbl", s |-> digits]

\* strlen(line): the data line has 5 characters and 3 for each byte; of the
\* other lines only 0, 1 or more matters
strlen(line) ==
    CASE line.t = "raw" -> Len(line.chars)
      [] line.t = "data" -> 5 + 3 * Len(line.val)
      [] OTHER -> 2

\* index(line, ':') != NULL
has_colon(line) == line.t \in {"param", "data"}

\* the characters of a C string: the bytes before the first NUL
CString(bytes) ==
    LET nul == {i \in 1..Len(bytes) : bytes[i] = 0}
    IN  IF nul = {} THEN bytes
        ELSE SubSeq(bytes, 1, (CHOOSE i \in nul : \A j \in nul : i <= j) - 1)

\* strkey: the four characters of a key, in wire order
strkey(name) == endian_fixup(Store32(name))

\* struct config, after memset
NewConfig == [bin_format |-> <<0, 0>>, bin_type |-> <<0, 0>>, index |-> <<0, 0>>]

\* printf of a double with %.4lf, %.6lf and %.20lf, for the doubles of the
\* model, by their big-endian image
DoubleTexts ==
    { [img |-> <<0, 0, 0, 0, 0, 0, 0, 0>>, p4 |-> "0.0000", p6 |-> "0.000000", p20 |-> "0.00000000000000000000"],
      [img |-> <<63, 224, 0, 0, 0, 0, 0, 0>>, p4 |-> "0.5000", p6 |-> "0.500000", p20 |-> "0.50000000000000000000"],
      [img |-> <<63, 185, 153, 153, 153, 153, 153, 154>>, p4 |-> "0.1000", p6 |-> "0.100000", p20 |-> "0.10000000000000000555"],
      [img |-> <<62, 122, 215, 242, 154, 188, 175, 72>>, p4 |-> "0.0000", p6 |-> "0.000000", p20 |-> "0.00000010000000000000"],
      [img |-> <<57, 180, 72, 75, 254, 235, 194, 160>>, p4 |-> "0.0000", p6 |-> "0.000000", p20 |-> "0.00000000000000000000"] }

\* strtod of the texts printf can write for them
DoubleImages ==
    { [s |-> "0.0000", img |-> <<0, 0, 0, 0, 0, 0, 0, 0>>],
      [s |-> "0.000000", img |-> <<0, 0, 0, 0, 0, 0, 0, 0>>],
      [s |-> "0.00000000000000000000", img |-> <<0, 0, 0, 0, 0, 0, 0, 0>>],
      [s |-> "0.00000010000000000000", img |-> <<62, 122, 215, 242, 154, 188, 175, 72>>],
      [s |-> "0.1000", img |-> <<63, 185, 153, 153, 153, 153, 153, 154>>],
      [s |-> "0.100000", img |-> <<63, 185, 153, 153, 153, 153, 153, 154>>],
      [s |-> "0.10000000000000000555", img |-> <<63, 185, 153, 153, 153, 153, 153, 154>>],
      [s |-> "0.5000", img |-> <<63, 224, 0, 0, 0, 0, 0, 0>>],
      [s |-> "0.500000", img |-> <<63, 224, 0, 0, 0, 0, 0, 0>>],
      [s |-> "0.50000000000000000000", img |-> <<63, 224, 0, 0, 0, 0, 0, 0>>] }

\* printf of a float with % .16lf and % .20lf, by its big-endian image
FloatTexts ==
    { [img |-> <<63, 128, 0, 0>>, p16 |-> " 1.0000000000000000", p20 |-> " 1.00000000000000000000"],
      [img |-> <<191, 0, 0, 0>>, p16 |-> "-0.5000000000000000", p20 |-> "-0.50000000000000000000"],
      [img |-> <<61, 204, 204, 205>>, p16 |-> " 0.1000000014901161", p20 |-> " 0.10000000149011611938"] }

\* (float)strtod of the texts
FloatImages ==
    { [s |-> " 0.1000000014901161", img |-> <<61, 204, 204, 205>>],
      [s |-> " 0.10000000149011611938", img |-> <<61, 204, 204, 205>>],
      [s |-> " 1.0000000000000000", img |-> <<63, 128, 0, 0>>],
      [s |-> " 1.00000000000000000000", img |-> <<63, 128, 0, 0>>],
      [s |-> "-0.5000000000000000", img |-> <<191, 0, 0, 0>>],
      [s |-> "-0.50000000000000000000", img |-> <<191, 0, 0, 0>>] }

\* the image of an object in wire order, from its memory on this host, and back
WireOrder(mem) == IF little THEN Reverse(mem) ELSE mem

printf_lf(mem, precision) ==
    LET r == CHOOSE e \in DoubleTexts : e.img = WireOrder(mem)
    IN  CASE precision = 4 -> r.p4
          [] precision = 6 -> r.p6
          [] precision = 20 -> r.p20

strtod(digits) == WireOrder((CHOOSE e \in DoubleImages : e.s = digits).img)

printf_f(mem, precision) ==
    LET r == CHOOSE e \in FloatTexts : e.img = WireOrder(mem)
    IN  CASE precision = 16 -> r.p16
          [] precision = 20 -> r.p20

strtof(digits) == WireOrder((CHOOSE e \in FloatImages : e.s = digits).img)

\* the literal text a read_parameter format starts with: the label and the
\* colon, as characters
FormatLiteral(label) ==
    CASE label = "nchannels" -> <<110, 99, 104, 97, 110, 110, 101, 108, 115, 58>>
      [] label = "nranges" -> <<110, 114, 97, 110, 103, 101, 115, 58>>
      [] label = "nsweeps" -> <<110, 115, 119, 101, 101, 112, 115, 58>>
      [] label = "iqindicator" -> <<105, 113, 105, 110, 100, 105, 99, 97, 116, 111, 114, 58>>
      [] label = "rtag" -> <<114, 116, 97, 103, 58>>
      [] label = "index" -> <<105, 110, 100, 101, 120, 58>>
      [] label = "filetimestamp" -> <<102, 105, 108, 101, 116, 105, 109, 101, 115, 116, 97, 109, 112, 58>>
      [] label = "lat" -> <<108, 97, 116, 58>>
      [] label = "lon" -> <<108, 111, 110, 58>>
      [] label = "alt" -> <<97, 108, 116, 58>>
      [] label = "gpstimestamp" -> <<103, 112, 115, 116, 105, 109, 101, 115, 116, 97, 109, 112, 58>>
      [] label = "version" -> <<118, 101, 114, 115, 105, 111, 110, 58>>
      [] label = "filetype" -> <<102, 105, 108, 101, 116, 121, 112, 101, 58>>
      [] label = "sitecode" -> <<115, 105, 116, 101, 99, 111, 100, 101, 58>>
      [] label = "userflags" -> <<117, 115, 101, 114, 102, 108, 97, 103, 115, 58>>
      [] label = "description" -> <<100, 101, 115, 99, 114, 105, 112, 116, 105, 111, 110, 58>>
      [] label = "ownername" -> <<111, 119, 110, 101, 114, 110, 97, 109, 101, 58>>
      [] label = "comment" -> <<99, 111, 109, 109, 101, 110, 116, 58>>
      [] label = "samplespersweep" -> <<115, 97, 109, 112, 108, 101, 115, 112, 101, 114, 115, 119, 101, 101, 112, 58>>
      [] label = "sweepstart" -> <<115, 119, 101, 101, 112, 115, 116, 97, 114, 116, 58>>
      [] label = "sweepbandwidth" -> <<115, 119, 101, 101, 112, 98, 97, 110, 100, 119, 105, 100, 116, 104, 58>>
      [] label = "sweeprate" -> <<115, 119, 101, 101, 112, 114, 97, 116, 101, 58>>
      [] label = "rangeoffset" -> <<114, 97, 110, 103, 101, 111, 102, 102, 115, 101, 116, 58>>
      [] label = "format" -> <<102, 111, 114, 109, 97, 116, 58>>
      [] label = "type" -> <<116, 121, 112, 101, 58>>
      [] label = "scalar_one" -> <<115, 99, 97, 108, 97, 114, 95, 111, 110, 101, 58>>
      [] label = "scalar_two" -> <<115, 99, 97, 108, 97, 114, 95, 116, 119, 111, 58>>
      [] label = "rxloss" -> <<114, 120, 108, 111, 115, 115, 58>>

IsPrefix(a, b) == Len(a) <= Len(b) /\ SubSeq(b, 1, Len(a)) = a

\* A field of a fixed-layout struct: its label in the text, its width in
\* bytes and how it is converted.
\*   d, u, x : 32-bit integer, printed and scanned with %d, %u, %x
\*   time    : 32-bit timestamp, moved between the epochs
\*   lf      : double, printed with %.<precision>lf and scanned with %lf
\*   key     : four characters printed through strkey and scanned with %4c
\*   fkey    : four characters printed through strkey, scanned with %4s and
\*             passed to endian_fixup
\*   chars   : characters printed with %.*s and scanned with %<width>c
Field(label, conv, width, precision) ==
    [label |-> label, conv |-> conv, width |-> width, precision |-> precision]

SIZE_DESCRIPTION == 64

SIZE_OWNERNAME == 64

SIZE_COMMENT == 64

\* the fields of the struct of a leaf type, in struct order
Fields(key) ==
    CASE key = KEY_sign -> << Field("version", "key", 4, 0),
                              Field("filetype", "key", 4, 0),
                              Field("sitecode", "key", 4, 0),
                              Field("userflags", "x", 4, 0),
                              Field("description", "chars", SIZE_DESCRIPTION, 0),
                              Field("ownername", "chars", SIZE_OWNERNAME, 0),
                              Field("comment", "chars", SIZE_COMMENT, 0) >>
      [] key = KEY_mcda -> << Field("filetimestamp", "time", 4, 0) >>
      [] key = KEY_dbrf -> << Field("rxloss", "lf", 8, 4) >>
      [] key = KEY_cnst -> << Field("nchannels", "d", 4, 0),
                              Field("nranges", "d", 4, 0),
                              Field("nsweeps", "d", 4, 0),
                              Field("iqindicator", "d", 4, 0) >>
      [] key = KEY_swep -> << Field("samplespersweep", "d", 4, 0),
                              Field("sweepstart", "lf", 8, 20),
                              Field("sweepbandwidth", "lf", 8, 20),
                              Field("sweeprate", "lf", 8, 20),
                              Field("rangeoffset", "d", 4, 0) >>
      [] key = KEY_fbin -> << Field("format", "fkey", 4, 0),
                              Field("type", "fkey", 4, 0) >>
      [] key = KEY_rtag -> << Field("rtag", "u", 4, 0) >>
      [] key = KEY_gps1 -> << Field("lat", "lf", 8, 6),
                              Field("lon", "lf", 8, 6),
                              Field("alt", "lf", 8, 6),
                              Field("gpstimestamp", "time", 4, 0) >>
      [] key = KEY_indx -> << Field("index", "u", 4, 0) >>
      [] key = KEY_scal -> << Field("scalar_one", "lf", 8, 20),
                              Field("scalar_two", "lf", 8, 20) >>

\* the leaf types whose data block is a fixed-layout struct read with
\* read_parameter
FixedLayout(key) ==
    key \in {KEY_sign, KEY_mcda, KEY_dbrf, KEY_cnst, KEY_swep, KEY_fbin, KEY_rtag,
             KEY_gps1, KEY_indx, KEY_scal}

\* the offset of the k-th field in the struct
RECURSIVE FieldOffset(_, _)
FieldOffset(fields, k) ==
    IF k = 1 THEN 0 ELSE FieldOffset(fields, k - 1) + fields[k - 1].width

FieldMem(data, fields, k) ==
    SubSeq(data, FieldOffset(fields, k) + 1, FieldOffset(fields, k) + fields[k].width)

\* the widths the gen_block_xxxx function of a fixed-layout type passes to
\* endian_fixup before writing: gen_block_sign passes none
GenWidths(key) == IF key = KEY_sign THEN <<>> ELSE FixupWidths(key, StructSize(key))

\* the lines a dump_block_xxxx function prints for one field: none for a
\* timestamp of 0
dump_field(f, mem) ==
    CASE f.conv = "d" ->
             LET w == WordAt(mem)
                 neg == w[1] >= 32768
             IN  <<ParamLine(f.label, <<Num(neg, FALSE, IF neg THEN Neg32(w) ELSE w)>>)>>
      [] f.conv \in {"u", "x"} ->
             <<ParamLine(f.label, <<Num(FALSE, FALSE, WordAt(mem))>>)>>
      [] f.conv = "time" ->
             LET w == WordAt(mem)
             IN  IF w = <<0, 0>> THEN <<>>
                 ELSE <<ParamLine(f.label,
                            <<Num(FALSE, Less32(w, Word(EPOCH_OFFSET)),
                                  Add32(w, Neg32(Word(EPOCH_OFFSET))))>>)>>
      [] f.conv = "lf" ->
             <<ParamLine(f.label, <<Dbl(printf_lf(mem, f.precision))>>)>>
      [] f.conv \in {"key", "fkey"} ->
             LET s == CString(endian_fixup(mem))
             IN  <<ParamLine(f.label, IF s = <<>> THEN <<>> ELSE <<Str(s)>>)>>
      [] f.conv = "chars" ->
             LET s == CString(mem)
             IN  <<ParamLine(f.label, IF s = <<>> THEN <<>> ELSE <<Str(s)>>)>>

RECURSIVE dump_fields(_, _, _)
dump_fields(fields, k, data) ==
    IF k > Len(fields) THEN <<>>
    ELSE dump_field(fields[k], FieldMem(data, fields, k)) \o dump_fields(fields, k + 1, data)

\* a hexadecimal digit, as %02x writes it
HexChar(n) == IF n < 10 THEN 48 + n ELSE 87 + n

\* the characters hexdump writes behind "data:": a space and two digits for
\* each byte
hexdump(bytes) ==
    [j \in 1..(3 * Len(bytes)) |->
        LET b == bytes[(j + 2) \div 3]
        IN  CASE j % 3 = 1 -> 32
              [] j % 3 = 2 -> HexChar(b \div 16)
              [] OTHER -> HexChar(b % 16)]

\* the characters of a data line
DataChars(bytes) == <<100, 97, 116, 97, 58>> \o hexdump(bytes)

BINFORMAT_CVIQ == 1668704625

BINTYPE_FLT4 == 1718383668

BINFORMAT_DBRA == 1684173409

BINTYPE_FLT8 == 1718383672

\* sizeof(struct block_iqdata_float)
IQ_SIZE == 8

\* the sample lines dump_block_afft (precision 20) and dump_block_ifft
\* (precision 16) print
iq_lines(data, nsamples, precision) ==
    [n \in 1..nsamples |->
        IqLine(n - 1,
               printf_f(SubSeq(data, IQ_SIZE * n - 7, IQ_SIZE * n - 4), precision),
               printf_f(SubSeq(data, IQ_SIZE * n - 3, IQ_SIZE * n), precision))]

\* dump_block_xxxx: status, the lines written and the config afterwards
dump_block(node, config) ==
    IF node.key \in {KEY_AQFT, KEY_HEAD, KEY_BODY}
    THEN [err |-> 0, lines |-> <<RawLine(strkey(node.key)), BlankLine>>,
          config |-> config]
    ELSE IF node.key = KEY_END
    THEN [err |-> 0, lines |-> <<RawLine(strkey(node.key))>>, config |-> config]
    ELSE IF node.key = KEY_hasi
    THEN (IF node.size < StructSize(KEY_hasi)
          THEN [err |-> 1, lines |-> <<>>, config |-> config]
          ELSE [err |-> 0,
                lines |-> <<RawLine(strkey(node.key)), DataLine(node.data), BlankLine>>,
                config |-> config])
    ELSE IF node.key \in {KEY_afft, KEY_ifft}
    THEN (IF node.size < IQ_SIZE
             \/ config.bin_format # Word(BINFORMAT_CVIQ)
             \/ config.bin_type # Word(BINTYPE_FLT4)
          THEN [err |-> 1, lines |-> <<>>, config |-> config]
          ELSE [err |-> 0,
                lines |-> <<RawLine(strkey(node.key))>>
                          \o iq_lines(node.data, node.size \div IQ_SIZE,
                                      IF node.key = KEY_afft THEN 20 ELSE 16)
                          \o <<BlankLine>>,
                config |-> config])
    ELSE IF node.size < StructSize(node.key)
    THEN [err |-> 1, lines |-> <<>>, config |-> config]
    ELSE [err    |-> 0,
          lines  |-> <<RawLine(strkey(node.key))>>
                     \o dump_fields(Fields(node.key), 1, node.data)
                     \o <<BlankLine>>,
          config |-> CASE node.key = KEY_indx ->
                              [config EXCEPT !.index = WordAt(SubSeq(node.data, 1, 4))]
                       [] node.key = KEY_fbin ->
                              [config EXCEPT
                                  !.bin_format = WordAt(SubSeq(node.data, 1, 4)),
                                  !.bin_type = WordAt(SubSeq(node.data, 5, 8))]
                       [] OTHER -> config]

\* a variant that does not stop at the BODY block when only the header is
\* asked for
RECURSIVE dump_from_through_body(_, _, _, _, _)

dump_next_through_body(nodes, i, header_only, lines, d) ==
    IF d.err # 0 THEN [err |-> 1, text |-> lines \o d.lines]
    ELSE dump_from_through_body(nodes, i + 1, d.config, header_only, lines \o d.lines)

dump_from_through_body(nodes, i, config, header_only, lines) ==
    IF i > Len(nodes) THEN [err |-> 0, text |-> lines]
    ELSE IF ~find_block_functions(nodes[i].key) THEN [err |-> 1, text |-> lines]
    ELSE dump_next_through_body(nodes, i, header_only, lines,
                                dump_block(nodes[i], config))

\* dump_list from the i-th node on
RECURSIVE dump_from(_, _, _, _, _)

\* the end of its loop body, d being what the dump_block_xxxx function gave
dump_next(nodes, i, header_only, lines, d) ==
    IF d.err # 0 THEN [err |-> 1, text |-> lines \o d.lines]
    ELSE dump_from(nodes, i + 1, d.config, header_only, lines \o d.lines)

dump_from(nodes, i, config, header_only, lines) ==
    IF i > Len(nodes) THEN [err |-> 0, text |-> lines]
    ELSE IF ~find_block_functions(nodes[i].key) THEN [err |-> 1, text |-> lines]
    ELSE IF header_only /\ nodes[i].key = KEY_BODY THEN [err |-> 0, text |-> lines]
    ELSE dump_next(nodes, i, header_only, lines, dump_block(nodes[i], config))

dump_list(nodes, header_only) == dump_from(nodes, 1, NewConfig, header_only, <<>>)

\* rsdump: its status, the list parse_file returned, the text written, and
\* whether the run left defined behaviour (undefined: the decoder accessed
\* memory outside filedata, or parse_file returned the uninitialized next
\* pointer of its dummy root)
rsdump(buffer, header_only) ==
    IF read_binary_file(buffer) # 0
    THEN [err |-> 0, nodes |-> <<>>, text |-> <<>>, oob |-> FALSE, undefined |-> FALSE]
    ELSE LET p == parse_file(buffer)
         IN  IF p.oob \/ p.uninit
             THEN [err |-> 0, nodes |-> <<>>, text |-> <<>>, oob |-> p.oob,
                   undefined |-> TRUE]
             ELSE LET d == dump_list(p.nodes, header_only)
                  IN  [err |-> d.err, nodes |-> p.nodes, text |-> d.text,
                       oob |-> FALSE, undefined |-> FALSE]

----------------------------------------------------------------------------
(* The size reconciler                                                      *)

\* calculate_head_size, from the i-th node on (sizes are uint32_t)
RECURSIVE head_scan(_, _, _, _)
head_scan(nodes, i, in_head, size) ==
    IF i > Len(nodes) THEN size
    ELSE LET key  == nodes[i].key
             in1  == IF key = KEY_END THEN FALSE ELSE in_head
             in2  == IF key = KEY_BODY THEN FALSE ELSE in1
             sz   == IF in2 THEN size + (nodes[i].size + HEADER_SIZE) ELSE size
             in3  == IF key = KEY_HEAD THEN TRUE ELSE in2
         IN  head_scan(nodes, i + 1, in3, sz)

\* a variant whose in_head flag starts out set
calculate_head_size_flag_set(nodes) == head_scan(nodes, 1, TRUE, 0)

calculate_head_size(nodes) == head_scan(nodes, 1, FALSE, 0)

\* calculate_body_size, from the i-th node on
RECURSIVE body_scan(_, _, _, _)
body_scan(nodes, i, in_body, size) ==
    IF i > Len(nodes) THEN size
    ELSE LET key  == nodes[i].key
             in1  == IF key = KEY_END THEN FALSE ELSE in_body
             sz   == IF in1 THEN size + (nodes[i].size + HEADER_SIZE) ELSE size
             in2  == IF key = KEY_BODY THEN TRUE ELSE in1
         IN  body_scan(nodes, i + 1, in2, sz)

calculate_body_size(nodes) == body_scan(nodes, 1, FALSE, 0)

\* the index of the first node with the given key, 0 when there is none
FirstWithKey(nodes, key) ==
    IF \E i \in 1..Len(nodes) : nodes[i].key = key
    THEN CHOOSE i \in 1..Len(nodes) :
             /\ nodes[i].key = key
             /\ \A j \in 1..(i - 1) : nodes[j].key # key
    ELSE 0

\* a variant that reports success when no node has the key
set_block_size_silent(nodes, key, size) ==
    LET i == FirstWithKey(nodes, key)
    IN  IF i = 0 THEN [err |-> 0, nodes |-> nodes]
        ELSE [err |-> 0, nodes |-> [nodes EXCEPT ![i].size = size]]

\* a variant that gives the size to every node with the key
set_block_size_every_node(nodes, key, size) ==
    IF FirstWithKey(nodes, key) = 0 THEN [err |-> 1, nodes |-> nodes]
    ELSE [err |-> 0,
          nodes |-> [i \in 1..Len(nodes) |->
                        IF nodes[i].key = key THEN [nodes[i] EXCEPT !.size = size]
                        ELSE nodes[i]]]

\* set_block_size: the first node with the key gets the size; 1 when no node
\* has the key
set_block_size(nodes, key, size) ==
    LET i == FirstWithKey(nodes, key)
    IN  IF i = 0 THEN [err |-> 1, nodes |-> nodes]
        ELSE [err |-> 0, nodes |-> [nodes EXCEPT ![i].size = size]]

\* a variant whose root size also counts the header of the END block
fixup_sizes_counting_end(nodes) ==
    LET head_size == calculate_head_size(nodes)
        body_size == calculate_body_size(nodes)
        aqft_size == head_size + HEADER_SIZE + body_size + HEADER_SIZE + HEADER_SIZE
        a == set_block_size(nodes, KEY_AQFT, aqft_size)
        h == set_block_size(a.nodes, KEY_HEAD, head_size)
        b == set_block_size(h.nodes, KEY_BODY, body_size)
    IN  IF head_size = 0 THEN [err |-> 1, nodes |-> nodes]
        ELSE IF body_size = 0 THEN [err |-> 1, nodes |-> nodes]
        ELSE IF a.err # 0 THEN [err |-> 1, nodes |-> a.nodes]
        ELSE IF h.err # 0 THEN [err |-> 1, nodes |-> h.nodes]
        ELSE IF b.err # 0 THEN [err |-> 1, nodes |-> b.nodes]
        ELSE [err |-> 0, nodes |-> b.nodes]

\* fixup_sizes: status and the list afterwards
fixup_sizes(nodes) ==
    LET head_size == calculate_head_size(nodes)
        body_size == calculate_body_size(nodes)
        aqft_size == head_size + HEADER_SIZE + body_size + HEADER_SIZE
        a == set_block_size(nodes, KEY_AQFT, aqft_size)
        h == set_block_size(a.nodes, KEY_HEAD, head_size)
        b == set_block_size(h.nodes, KEY_BODY, body_size)
    IN  IF head_size = 0 THEN [err |-> 1, nodes |-> nodes]
        ELSE IF body_size = 0 THEN [err |-> 1, nodes |-> nodes]
        ELSE IF a.err # 0 THEN [err |-> 1, nodes |-> a.nodes]
        ELSE IF h.err # 0 THEN [err |-> 1, nodes |-> h.nodes]
        ELSE IF b.err # 0 THEN [err |-> 1, nodes |-> b.nodes]
        ELSE [err |-> 0, nodes |-> b.nodes]

----------------------------------------------------------------------------
(* The text parser and the binary encoder (rsgen)                           *)

\* mem with bytes stored at offset off; bytes that would land behind the end
\* of the block are not part of it
Poke(mem, off, bytes) ==
    LET n == Min(Len(bytes), Len(mem) - off)
    IN  SubSeq(mem, 1, off) \o SubSeq(bytes, 1, n) \o SubSeq(mem, off + n + 1, Len(mem))

\* what the conversion of a format stores for a value token; count is 1 when
\* it converts and 0 when the text does not start a value of that kind.  A
\* number token is the number as its field's conversion reads it.  A 32-bit
\* conversion of a text above 2^32 - 1 keeps the low 32 bits, as the C
\* library does.  %<n>c stores the characters there are, up to n; %4s stores
\* up to 4 characters and a NUL behind them.
sscanf_value(f, tok) ==
    CASE f.conv \in {"d", "u", "x", "time"} ->
             IF tok.k = "num"
             THEN [count |-> 1,
                   bytes |-> WordBytes(IF tok.neg THEN Neg32(tok.w) ELSE tok.w)]
             ELSE [count |-> 0, bytes |-> <<>>]
      [] f.conv = "lf" ->
             IF tok.k = "dbl"
             THEN [count |-> 1, bytes |-> strtod(tok.s)]
             ELSE [count |-> 0, bytes |-> <<>>]
      [] f.conv \in {"key", "chars"} ->
             IF tok.k = "str"
             THEN [count |-> 1, bytes |-> SubSeq(tok.s, 1, Min(Len(tok.s), f.width))]
             ELSE [count |-> 0, bytes |-> <<>>]
      [] f.conv = "fkey" ->
             IF tok.k = "str"
             THEN [count |-> 1,
                   bytes |-> SubSeq(tok.s, 1, Min(Len(tok.s), f.width)) \o <<0>>]
             ELSE [count |-> 0, bytes |-> <<>>]

\* sscanf(line, "label:%...", buffer) on a line that is not empty: count is 1
\* when the literal matches and a value converts, EOF (-1) when the line ends
\* before the conversion (nothing follows the colon, or the line is a prefix
\* of the literal), 0 on a mismatch
sscanf(line, f) ==
    IF line.t = "param"
    THEN (IF line.label # f.label THEN [count |-> 0, bytes |-> <<>>]
          ELSE IF line.val = <<>> THEN [count |-> 0 - 1, bytes |-> <<>>]
          ELSE sscanf_value(f, line.val[1]))
    ELSE IF line.t = "raw"
    THEN (IF IsPrefix(line.chars, FormatLiteral(f.label))
          THEN [count |-> 0 - 1, bytes |-> <<>>]
          ELSE [count |-> 0, bytes |-> <<>>])
    ELSE [count |-> 0, bytes |-> <<>>]

\* read_parameter, reading from line i on: status, and the bytes sscanf
\* stored (stored = FALSE when it stored none).  The stream is put back to
\* where it was, so no position is returned.
RECURSIVE read_parameter(_, _, _)

\* the body of its loop for line i, s being what sscanf returned for the line
read_parameter_line(lines, i, f, s) ==
    IF s.count # 0
    THEN [err |-> 0, stored |-> s.count = 1, bytes |-> s.bytes]
    ELSE read_parameter(lines, i + 1, f)

read_parameter(lines, i, f) ==
    IF i > Len(lines) THEN [err |-> 0, stored |-> FALSE, bytes |-> <<>>]
    ELSE IF strlen(lines[i]) = 0 THEN [err |-> 1, stored |-> FALSE, bytes |-> <<>>]
    ELSE read_parameter_line(lines, i, f, sscanf(lines[i], f))

\* what a make_node_xxxx function does to a field after read_parameter
\* returned 0
after_read(f, mem) ==
    CASE f.conv = "time" -> WordBytes(Add32(WordAt(mem), Word(EPOCH_OFFSET)))
      [] f.conv = "fkey" -> endian_fixup(mem)
      [] OTHER -> mem

\* the read_parameter calls of a make_node_xxxx function, from the k-th field
\* on, on the zeroed struct
RECURSIVE make_fields(_, _, _, _, _)

\* the struct once the k-th field, as sscanf left it, got its treatment
make_field_done(read, fields, k) ==
    Poke(read, FieldOffset(fields, k), after_read(fields[k], FieldMem(read, fields, k)))

\* the k-th field, r being what its read_parameter call returned
make_field(lines, i, fields, k, data, r) ==
    IF r.err # 0 THEN [err |-> 1, data |-> data]
    ELSE make_fields(lines, i, fields, k + 1,
             make_field_done(IF r.stored THEN Poke(data, FieldOffset(fields, k), r.bytes)
                             ELSE data,
                             fields, k))

make_fields(lines, i, fields, k, data) ==
    IF k > Len(fields) THEN [err |-> 0, data |-> data]
    ELSE make_field(lines, i, fields, k, data, read_parameter(lines, i, fields[k]))

MAX_ARGC == 256

MAX_LINE == MAX_ARGC * 3 + 1

\* make_node_hasi with the stream at line i.  fgets(line, MAX_LINE-1, fd)
\* takes at most MAX_LINE - 2 characters of the line and leaves the others in
\* the stream; strtok splits what was taken at the spaces, argv[0] ends up
\* being the first token behind "data:".
make_node_hasi(config, lines, i) ==
    IF i > Len(lines)
    THEN [err |-> 1, node |-> Node(KEY_hasi, 0, NoPtr, <<>>), pos |-> i,
          config |-> config, lines |-> lines]
    ELSE IF lines[i].t = "data"
    THEN LET chars  == DataChars(lines[i].val)
             got    == Min(Len(chars), MAX_LINE - 2)
             tokens == (got - 5) \div 3
             argc   == Min(tokens, MAX_ARGC)
             whole  == got = Len(chars)
         IN  [err   |-> IF argc <= 0 \/ argc = MAX_ARGC THEN 1 ELSE 0,
              node  |-> IF argc <= 0 \/ argc = MAX_ARGC
                        THEN Node(KEY_hasi, 0, NoPtr, <<>>)
                        ELSE Node(KEY_hasi, argc, NoPtr, SubSeq(lines[i].val, 1, argc)),
              pos   |-> IF whole THEN i + 1 ELSE i,
              config |-> config,
              lines |-> IF whole THEN lines
                        ELSE [lines EXCEPT
                                 ![i] = RawLine(SubSeq(chars, got + 1, Len(chars)))]]
    ELSE [err |-> 1, node |-> Node(KEY_hasi, 0, NoPtr, <<>>), pos |-> i + 1,
          config |-> config, lines |-> lines]

\* count_iqdata_lines: the lines before the next blank line or the end of the
\* stream
RECURSIVE count_iqdata_lines(_, _)
count_iqdata_lines(lines, i) ==
    IF i > Len(lines) THEN 0
    ELSE IF strlen(lines[i]) < 1 THEN 0
    ELSE 1 + count_iqdata_lines(lines, i + 1)

\* read_iqdata_samples: status and the samples stored, for iqsamples lines
\* from line i on
RECURSIVE read_iqdata_lines(_, _, _)
read_iqdata_lines(lines, i, iqsamples) ==
    IF iqsamples = 0 THEN [err |-> 0, data |-> <<>>]
    ELSE IF i > Len(lines) THEN [err |-> 1, data |-> <<>>]
    ELSE IF strlen(lines[i]) = 0 THEN [err |-> 1, data |-> <<>>]
    ELSE IF lines[i].t # "iq" THEN [err |-> 1, data |-> <<>>]
    ELSE LET rest == read_iqdata_lines(lines, i + 1, iqsamples - 1)
         IN  [err  |-> rest.err,
              data |-> strtof(lines[i].val[2]) \o strtof(lines[i].val[3]) \o rest.data]

\* a variant that reads the samples whatever the format and the type are
read_iqdata_samples_any_format(lines, i, iqsamples, config) ==
    read_iqdata_lines(lines, i, iqsamples)

read_iqdata_samples(lines, i, iqsamples, config) ==
    IF config.bin_format # Word(BINFORMAT_CVIQ) THEN [err |-> 1, data |-> <<>>]
    ELSE IF config.bin_type # Word(BINTYPE_FLT4) THEN [err |-> 1, data |-> <<>>]
    ELSE read_iqdata_lines(lines, i, iqsamples)

\* a variant that takes any number of sample lines
make_node_iqdata_any_count(key, config, lines, i) ==
    LET afft_lines == count_iqdata_lines(lines, i)
        r == read_iqdata_samples(lines, i, afft_lines, config)
    IN  IF afft_lines <= 0
        THEN [err |-> 1, node |-> Node(key, 0, NoPtr, <<>>), pos |-> i,
              config |-> config, lines |-> lines]
        ELSE IF r.err # 0
        THEN [err |-> 1, node |-> Node(key, afft_lines * IQ_SIZE, NoPtr,
                                       Zeros(afft_lines * IQ_SIZE)), pos |-> i,
              config |-> config, lines |-> lines]
        ELSE [err |-> 0, node |-> Node(key, afft_lines * IQ_SIZE, NoPtr, r.data),
              pos |-> i + afft_lines, config |-> config, lines |-> lines]

\* make_node_afft and make_node_ifft with the stream at line i
make_node_iqdata(key, config, lines, i) ==
    LET afft_lines == count_iqdata_lines(lines, i)
        r == read_iqdata_samples(lines, i, afft_lines, config)
    IN  IF afft_lines <= 0 \/ afft_lines % 3 # 0
        THEN [err |-> 1, node |-> Node(key, 0, NoPtr, <<>>), pos |-> i,
              config |-> config, lines |-> lines]
        ELSE IF r.err # 0
        THEN [err |-> 1, node |-> Node(key, afft_lines * IQ_SIZE, NoPtr,
                                       Zeros(afft_lines * IQ_SIZE)), pos |-> i,
              config |-> config, lines |-> lines]
        ELSE [err |-> 0, node |-> Node(key, afft_lines * IQ_SIZE, NoPtr, r.data),
              pos |-> i + afft_lines, config |-> config, lines |-> lines]

\* make_node_xxxx with the stream at line i: status, the new node, the
\* stream position, the config and the unread stream afterwards
\* the make_node_xxxx function of a fixed-layout type, m being what its
\* read_parameter calls gave
make_node_fixed(key, config, lines, i, m) ==
    [err    |-> m.err,
     node   |-> Node(key, StructSize(key), NoPtr, m.data),
     pos    |-> i,
     config |-> IF key = KEY_fbin /\ m.err = 0
                THEN [config EXCEPT
                         !.bin_format = WordAt(SubSeq(m.data, 1, 4)),
                         !.bin_type = WordAt(SubSeq(m.data, 5, 8))]
                ELSE config,
     lines  |-> lines]

make_node(key, config, lines, i) ==
    IF superblock(key)
    THEN [err |-> 0, node |-> Node(key, 0, NoPtr, <<>>), pos |-> i,
          config |-> config, lines |-> lines]
    ELSE IF key = KEY_hasi THEN make_node_hasi(config, lines, i)
    ELSE IF key \in {KEY_afft, KEY_ifft} THEN make_node_iqdata(key, config, lines, i)
    ELSE make_node_fixed(key, config, lines, i,
             make_fields(lines, i, Fields(key), 1, Zeros(StructSize(key))))

\* gen_block_xxxx: the bytes written for a node.  The functions of afft and
\* ifft write whole samples only; gen_block_hasi writes the data as it is.
gen_block(node) ==
    endian_fixup(Store32(node.key)) \o endian_fixup(Store32(node.size))
        \o (IF superblock(node.key) THEN <<>>
            ELSE IF node.key = KEY_hasi THEN node.data
            ELSE IF node.key \in {KEY_afft, KEY_ifft}
            THEN SwapFields(SubSeq(node.data, 1, IQ_SIZE * (node.size \div IQ_SIZE)),
                            FixupWidths(node.key, node.size))
            ELSE SwapFields(node.data, GenWidths(node.key)))

\* a variant that writes the payload of a leaf only, without its header
RECURSIVE rs_write_from_bare_leaves(_, _, _)
rs_write_from_bare_leaves(nodes, i, bytes) ==
    IF i > Len(nodes) THEN [err |-> 0, out |-> bytes]
    ELSE IF ~find_block_functions(nodes[i].key) THEN [err |-> 1, out |-> bytes]
    ELSE rs_write_from_bare_leaves(nodes, i + 1,
             bytes \o (IF superblock(nodes[i].key) THEN gen_block(nodes[i])
                       ELSE SubSeq(gen_block(nodes[i]), HEADER_SIZE + 1,
                                   Len(gen_block(nodes[i])))))

\* rs_write from the i-th node on: status and the bytes written
RECURSIVE rs_write_from(_, _, _)
rs_write_from(nodes, i, bytes) ==
    IF i > Len(nodes) THEN [err |-> 0, out |-> bytes]
    ELSE IF ~find_block_functions(nodes[i].key) THEN [err |-> 1, out |-> bytes]
    ELSE rs_write_from(nodes, i + 1, bytes \o gen_block(nodes[i]))

rs_write(nodes) == rs_write_from(nodes, 1, <<>>)

\* the memory of a node: its key and size fields and its data block, as the
\* bytes they are on this host
NodeMem(node) == [key |-> Store32(node.key), size |-> Store32(node.size), data |-> node.data]

ListMem(nodes) == [i \in 1..Len(nodes) |-> NodeMem(nodes[i])]

\* the memory of a node after its gen_block_xxxx function: endian_fixup is
\* applied to the key, the size and the fields in place, before each fwrite
gen_block_mem(node) ==
    [key  |-> endian_fixup(Store32(node.key)),
     size |-> endian_fixup(Store32(node.size)),
     data |-> IF superblock(node.key) \/ node.key = KEY_hasi THEN node.data
              ELSE IF node.key \in {KEY_afft, KEY_ifft}
              THEN SwapFields(node.data, FixupWidths(node.key, node.size))
              ELSE SwapFields(node.data, GenWidths(node.key))]

\* the memory of the list after rs_write: the nodes before the first one
\* without a dictionary entry went through their gen_block_xxxx function
rs_write_mem(nodes) ==
    [i \in 1..Len(nodes) |->
        IF \A j \in 1..i : find_block_functions(nodes[j].key)
        THEN gen_block_mem(nodes[i])
        ELSE NodeMem(nodes[i])]

\* *(fourcc *)line after endian_fixup.  A line of 2 or 3 characters has its
\* terminating NUL among the four bytes, so it names no dictionary key: 0
\* stands for every such value.
line_key(chars) ==
    IF Len(chars) >= 4 THEN Load32(endian_fixup(SubSeq(chars, 1, 4))) ELSE 0

\* the while loop of rsgen with the stream at line i: status and the nodes
\* linked behind the root
RECURSIVE rsgen_loop(_, _, _, _)

\* the end of its body, m being what the make_node_xxxx function gave: the
\* node is linked before the status is looked at
rsgen_link(nodes, m) ==
    IF m.err # 0 THEN [err |-> 1, nodes |-> Append(nodes, m.node)]
    ELSE rsgen_loop(m.lines, m.pos, Append(nodes, m.node), m.config)

rsgen_loop(lines, i, nodes, config) ==
    IF i > Len(lines) THEN [err |-> 0, nodes |-> nodes]
    ELSE IF strlen(lines[i]) <= 1 THEN rsgen_loop(lines, i + 1, nodes, config)
    ELSE IF has_colon(lines[i]) THEN rsgen_loop(lines, i + 1, nodes, config)
    ELSE IF ~find_block_functions(line_key(lines[i].chars))
    THEN [err |-> 1, nodes |-> nodes]
    ELSE rsgen_link(nodes, make_node(line_key(lines[i].chars), config, lines, i + 1))

\* the root node of rsgen, after memset
RootNode == Node(0, 0, NoPtr, <<>>)

\* what rsgen does after its loop: fixup_sizes on the list from the root on
\* (its status is dropped), then rs_write on the nodes behind the root
rsgen_finish(parsed) ==
    LET f == fixup_sizes(<<RootNode>> \o parsed)
        w == rs_write(Tail(f.nodes))
    IN  [err |-> w.err, parsed |-> parsed, nodes |-> Tail(f.nodes),
         fix |-> f.err, wrote |-> TRUE, out |-> w.out,
         mem |-> rs_write_mem(Tail(f.nodes))]

\* a variant that goes on to fixup_sizes and rs_write whatever its loop
\* returned
rsgen_keep_going(lines) == rsgen_finish(rsgen_loop(lines, 1, <<>>, NewConfig).nodes)

\* rsgen: status, the nodes as parsed, the nodes as written, the status of
\* fixup_sizes, whether rs_write was entered, the bytes written, and the
\* memory of the nodes at the end
rsgen(lines) ==
    LET r == rsgen_loop(lines, 1, <<>>, NewConfig)
    IN  IF r.err # 0
        THEN [err |-> 1, parsed |-> r.nodes, nodes |-> r.nodes, fix |-> 0,
              wrote |-> FALSE, out |-> <<>>, mem |-> ListMem(r.nodes)]
        ELSE rsgen_finish(r.nodes)

----------------------------------------------------------------------------
(* Inputs and bounds                                                        *)

\* longest binary input file, in bytes
MaxBuf == 32

\* most records of a text input file
MaxRecords == 4

\* most nodes linked behind the root before fixup_sizes is applied
MaxNodes == 7

\* The pieces binary input files are built from: a block header with a key
\* and a declared size, followed by some bytes of value 7.
Chunks ==
    {<<KEY_AQFT, s, 0>> : s \in {0, 16}}
        \cup {<<KEY_HEAD, s, 0>> : s \in {0, 4, 12}}
        \cup {<<KEY_HEAD, 12, 4>>}
        \cup {<<KEY_BODY, s, 0>> : s \in {0, 12}}
        \cup {<<KEY_END, 0, 0>>, <<KEY_XXXX, 0, 0>>}
        \cup {<<KEY_rtag, 4, n>> : n \in {3, 4, 7}}

ChunkBytes(c) == Bytes4(c[1]) \o Bytes4(c[2]) \o [i \in 1..c[3] |-> 7]

\* The records text input files are built from.
NameLine(key) == RawLine(Bytes4(key))

Records ==
    {<<NameLine(k), BlankLine>> : k \in {KEY_AQFT, KEY_HEAD, KEY_BODY, KEY_XXXX}}
        \cup {<<NameLine(KEY_END)>>}
        \cup {<<NameLine(KEY_rtag), ParamLine("rtag", <<Num(FALSE, FALSE, Word(7))>>), BlankLine>>,
              <<NameLine(KEY_rtag), ParamLine("rtag", <<>>), BlankLine>>,
              <<NameLine(KEY_rtag), BlankLine>>,
              <<NameLine(KEY_rtag)>>}

NumRecords(lines) == Cardinality({i \in 1..Len(lines) : strlen(lines[i]) > 1
                                                          /\ ~has_colon(lines[i])})

\* The nodes lists are built from for fixup_sizes: the key and the size the
\* make_node_xxxx function of the key gives the node (the data block plays no
\* part in fixup_sizes and is left out).
SizeKeys == {KEY_AQFT, KEY_HEAD, KEY_BODY, KEY_END, KEY_fbin, KEY_cnst}

MadeNode(key) == Node(key, IF superblock(key) THEN 0 ELSE StructSize(key), NoPtr, <<>>)

----------------------------------------------------------------------------
(* Actions                                                                  *)

Start(l) ==
    /\ pc = "input"
    /\ little \in BOOLEAN
    /\ buf = <<>>
    /\ just_header = FALSE
    /\ list = l
    /\ text = <<>>
    /\ out = <<>>
    /\ err = 0
    /\ gen_err = 0
    /\ fix_err = 0
    /\ list0 = <<>>
    /\ wrote = FALSE
    /\ endlist = <<>>
    /\ overrun = FALSE
    /\ stack = <<>>

\* a binary input file grows by one chunk
PutChunk ==
    /\ pc = "input"
    /\ \E c \in Chunks :
           /\ Len(buf) + Len(ChunkBytes(c)) <= MaxBuf
           /\ buf' = buf \o ChunkBytes(c)
    /\ UNCHANGED <<pc, little, just_header, list, text, out, err, gen_err, fix_err,
                   list0, wrote, endlist, overrun, stack>>

\* rsdump on the input file.  When the run leaves defined behaviour the
\* process either is killed or goes on with no list (parse_file returning
\* NULL), and rsdump returns 0.
Rsdump ==
    /\ pc = "input"
    /\ \E h \in BOOLEAN :
           LET r == rsdump(buf, h)
           IN  /\ just_header' = h
               /\ list' = r.nodes
               /\ text' = r.text
               /\ err' = r.err
               /\ overrun' = r.oob
               /\ IF r.undefined
                  THEN pc' \in {"crashed", "dumped"}
                  ELSE pc' = "dumped"
    /\ UNCHANGED <<little, buf, out, gen_err, fix_err, list0, wrote, endlist, stack>>

\* rsgen on the text rsdump wrote
Regen ==
    /\ pc = "dumped"
    /\ LET g == rsgen(text)
       IN  /\ list0' = <<RootNode>> \o g.parsed
           /\ list' = <<RootNode>> \o g.nodes
           /\ gen_err' = g.err
           /\ fix_err' = g.fix
           /\ wrote' = g.wrote
           /\ endlist' = g.mem
           /\ out' = g.out
    /\ pc' = "regen"
    /\ UNCHANGED <<little, buf, just_header, text, err, overrun, stack>>

\* a text input file grows by one record
PutRecord ==
    /\ pc = "input"
    /\ NumRecords(text) < MaxRecords
    /\ \E r \in Records : text' = text \o r
    /\ UNCHANGED <<pc, little, buf, just_header, list, out, err, gen_err, fix_err,
                   list0, wrote, endlist, overrun, stack>>

\* rsgen on the text input file
Rsgen ==
    /\ pc = "input"
    /\ LET g == rsgen(text)
       IN  /\ list0' = <<RootNode>> \o g.parsed
           /\ list' = <<RootNode>> \o g.nodes
           /\ gen_err' = g.err
           /\ fix_err' = g.fix
           /\ wrote' = g.wrote
           /\ endlist' = g.mem
           /\ out' = g.out
    /\ pc' = "genned"
    /\ UNCHANGED <<little, buf, just_header, text, err, overrun, stack>>

\* a make_node_xxxx function links one more node to the list
LinkNode ==
    /\ pc = "input"
    /\ Len(list) <= MaxNodes
    /\ \E k \in SizeKeys : list' = Append(list, MadeNode(k))
    /\ UNCHANGED <<pc, little, buf, just_header, text, out, err, gen_err, fix_err,
                   list0, wrote, endlist, overrun, stack>>

\* fixup_sizes on the list, from the root on
FixupSizes ==
    /\ pc = "input"
    /\ LET f == fixup_sizes(list)
       IN  /\ list0' = list
           /\ list' = f.nodes
           /\ fix_err' = f.err
    /\ pc' = "sized"
    /\ UNCHANGED <<little, buf, just_header, text, out, err, gen_err, wrote, endlist,
                   overrun, stack>>

----------------------------------------------------------------------------
(* Specifications                                                           *)

\* the decode direction, followed by the encode direction on its output
Init == Start(<<>>)

Next == PutChunk \/ Rsdump \/ Regen

Spec == Init /\ [][Next]_vars

\* the encode direction on text input files
NextGen == PutRecord \/ Rsgen

SpecGen == Init /\ [][NextGen]_vars

\* fixup_sizes on the lists the make functions can build
InitSizes == Start(<<RootNode>>) /\ little

NextSizes == LinkNode \/ FixupSizes

SpecSizes == InitSizes /\ [][NextSizes]_vars

----------------------------------------------------------------------------
(* Properties of the size reconciler (SpecSizes)                            *)

\* the number of nodes with the key
CountKey(nodes, key) == Cardinality({i \in 1..Len(nodes) : nodes[i].key = key})

\* the sum of size + header size over the nodes lo..hi
RECURSIVE SpanBytes(_, _, _)
SpanBytes(nodes, lo, hi) ==
    IF lo > hi THEN 0
    ELSE nodes[lo].size + HEADER_SIZE + SpanBytes(nodes, lo + 1, hi)

\* C2: after a successful fixup_sizes the size of the AQFT block is the size
\* written into HEAD, plus 8, plus the size written into BODY, plus 8; the
\* header of the END block is not part of it, wherever END is in the list.
C2_RootSize ==
    (pc = "sized" /\ fix_err = 0) =>
        LET a == FirstWithKey(list, KEY_AQFT)
            h == FirstWithKey(list, KEY_HEAD)
            b == FirstWithKey(list, KEY_BODY)
        IN  /\ a # 0 /\ h # 0 /\ b # 0
            /\ list[a].size = list[h].size + 8 + list[b].size + 8

\* C2, the case of the example: a head of 16 bytes and a body of 24 bytes give
\* a root of 56 bytes, with an END block in the list
C2_Witness ==
    /\ pc = "sized" /\ fix_err = 0
    /\ CountKey(list, KEY_END) = 1
    /\ list[FirstWithKey(list, KEY_HEAD)].size = 16
    /\ list[FirstWithKey(list, KEY_BODY)].size = 24
    /\ list[FirstWithKey(list, KEY_AQFT)].size = 56

\* one HEAD, one BODY and one END, in that order
OrderedSentinels(nodes) ==
    /\ CountKey(nodes, KEY_HEAD) = 1
    /\ CountKey(nodes, KEY_BODY) = 1
    /\ CountKey(nodes, KEY_END) = 1
    /\ FirstWithKey(nodes, KEY_HEAD) < FirstWithKey(nodes, KEY_BODY)
    /\ FirstWithKey(nodes, KEY_BODY) < FirstWithKey(nodes, KEY_END)

\* C3: for a list with exactly one HEAD, one BODY and one END, in that order,
\* calculate_head_size returns the sum of size + 8 over the blocks strictly
\* between HEAD and BODY and calculate_body_size the sum over the blocks
\* strictly between BODY and END: blocks before HEAD or after END count in
\* neither, and a successful fixup_sizes writes these two values into HEAD and
\* BODY.
C3_RegionSizes ==
    (pc = "sized" /\ OrderedSentinels(list0)) =>
        LET h == FirstWithKey(list0, KEY_HEAD)
            b == FirstWithKey(list0, KEY_BODY)
            e == FirstWithKey(list0, KEY_END)
        IN  /\ calculate_head_size(list0) = SpanBytes(list0, h + 1, b - 1)
            /\ calculate_body_size(list0) = SpanBytes(list0, b + 1, e - 1)
            /\ fix_err = 0 => /\ list[h].size = SpanBytes(list0, h + 1, b - 1)
                              /\ list[b].size = SpanBytes(list0, b + 1, e - 1)

\* C3, a case with a block in each region, a leaf before HEAD and a leaf after
\* END
C3_Witness ==
    /\ pc = "sized" /\ OrderedSentinels(list0)
    /\ LET h == FirstWithKey(list0, KEY_HEAD)
           b == FirstWithKey(list0, KEY_BODY)
           e == FirstWithKey(list0, KEY_END)
       IN  /\ b > h + 1 /\ e > b + 1
           /\ \E i \in 1..(h - 1) : list0[i].size > 0
           /\ \E i \in (e + 1)..Len(list0) : list0[i].size > 0

\* C4: fixup_sizes returns a failure status when the list has no AQFT block,
\* no HEAD block or no BODY block.
C4_MissingSentinel ==
    (pc = "sized" /\ \E k \in {KEY_AQFT, KEY_HEAD, KEY_BODY} : CountKey(list0, k) = 0)
        => fix_err # 0

\* C4, the case set_block_size decides: the head and the body are not empty
\* and the only block missing is AQFT
C4_Witness ==
    /\ pc = "sized" /\ fix_err # 0
    /\ CountKey(list0, KEY_AQFT) = 0
    /\ CountKey(list0, KEY_HEAD) = 1
    /\ CountKey(list0, KEY_BODY) = 1
    /\ calculate_head_size(list0) > 0
    /\ calculate_body_size(list0) > 0
    /\ list = list0

----------------------------------------------------------------------------
(* Properties of the encode direction (SpecGen)                             *)

\* a type-code line of the text names a code that is in no dictionary entry
UnregisteredNameIn(lines) ==
    \E i \in 1..Len(lines) :
        /\ strlen(lines[i]) > 1
        /\ ~has_colon(lines[i])
        /\ ~find_block_functions(line_key(lines[i].chars))

\* an rtag record of the text has no rtag line: a blank line comes first
MissingFieldIn(lines) ==
    \E i \in 1..Len(lines) : \E j \in (i + 1)..Len(lines) :
        /\ lines[i] = RawLine(Bytes4(KEY_rtag))
        /\ strlen(lines[j]) = 0
        /\ \A k \in (i + 1)..(j - 1) : sscanf(lines[k], Fields(KEY_rtag)[1]).count = 0

\* C5: when fixup_sizes fails in rsgen on the blocks of a text because the
\* list has no AQFT, no HEAD or no BODY block, rsgen returns an error status
\* and no byte is written.
C5_AbortOnMissingSentinel ==
    ( /\ pc = "genned"
      /\ fix_err # 0
      /\ Len(list0) > 1
      /\ \E k \in {KEY_AQFT, KEY_HEAD, KEY_BODY} : CountKey(list0, k) = 0 )
        => (gen_err # 0 /\ out = <<>>)

\* C6: when the text has a type-code line with an unregistered code, or a
\* record whose make function fails on a missing field, rsgen returns failure,
\* rs_write is not entered and no byte is written.
C6_NoOutputOnParseError ==
    ( /\ pc = "genned"
      /\ UnregisteredNameIn(text) \/ MissingFieldIn(text) )
        => (gen_err # 0 /\ ~wrote /\ out = <<>>)

\* C6, the case of the last record: three records parse, the fourth and last
\* is an rtag record without its field
C6_Witness ==
    /\ pc = "genned"
    /\ ~UnregisteredNameIn(text)
    /\ Len(text) >= 2
    /\ text[Len(text) - 1] = RawLine(Bytes4(KEY_rtag))
    /\ text[Len(text)] = BlankLine
    /\ NumRecords(text) = 4
    /\ ~MissingFieldIn(SubSeq(text, 1, Len(text) - 2))
    /\ gen_err # 0 /\ ~wrote /\ out = <<>>

----------------------------------------------------------------------------
(* Properties of the decode direction and of the round trip (Spec)          *)

\* the file is well formed: an AQFT block whose payload is a HEAD block, the
\* head leaves, a BODY block and the body leaves, every declared size being
\* the number of bytes of its payload, followed by an END block of size 0
ValidInput(buffer) ==
    LET p == parse_file(buffer)
        n == p.nodes
        m == Len(n)
        b == FirstWithKey(n, KEY_BODY)
    IN  /\ ~p.oob /\ ~p.short
        /\ m >= 4
        /\ n[1].key = KEY_AQFT /\ n[2].key = KEY_HEAD /\ n[m].key = KEY_END
        /\ b > 2 /\ b < m
        /\ \A i \in (3..(m - 1)) \ {b} :
               /\ find_block_functions(n[i].key)
               /\ ~superblock(n[i].key)
               /\ n[i].size = StructSize(n[i].key)
        /\ n[2].size = SpanBytes(n, 3, b - 1)
        /\ n[b].size = SpanBytes(n, b + 1, m - 1)
        /\ n[1].size = n[2].size + 8 + n[b].size + 8
        /\ n[m].size = 0
        /\ Len(buffer) = n[m].ptr
        /\ \A i \in 1..m :
               n[i].size = BE32(SubSeq(buffer, n[i].ptr - 3, n[i].ptr))

\* C1: a well-formed binary file that is dumped in full and generated again
\* from the text comes out byte for byte, but for the size field of the root,
\* which is the head size + 8 + the body size + 8.
C1_RoundTrip ==
    (pc = "regen" /\ ~just_header /\ ValidInput(buf)) =>
        /\ err = 0 /\ gen_err = 0
        /\ Len(out) = Len(buf)
        /\ \A i \in (1..Len(buf)) \ (5..8) : out[i] = buf[i]
        /\ LET hs == BE32(SubSeq(out, 13, 16))
           IN  /\ 16 + hs + 8 <= Len(out)
               /\ BE32(SubSeq(out, 5, 8))
                      = hs + 8 + BE32(SubSeq(out, 16 + hs + 5, 16 + hs + 8)) + 8

\* the last block parse_block decoded, and what its header declares
FinalBlock(buffer) == LET n == parse_file(buffer).nodes IN n[Len(n)]

FinalDeclared(buffer) ==
    BE32(SubSeq(buffer, FinalBlock(buffer).ptr - 3, FinalBlock(buffer).ptr))

\* C7: when the final block of the buffer declares more bytes than remain
\* after its header, its node has the number of remaining bytes as its size,
\* decoding succeeds and no byte outside the buffer is accessed.
C7_TruncationClamped ==
    ( /\ pc \in {"dumped", "crashed"}
      /\ read_binary_file(buf) = 0
      /\ Len(buf) >= HEADER_SIZE
      /\ FinalDeclared(buf) > Len(buf) - FinalBlock(buf).ptr )
        => /\ pc = "dumped"
           /\ ~overrun
           /\ list # <<>>
           /\ list[Len(list)].size = Len(buf) - list[Len(list)].ptr

\* C8: an input of 8 bytes or more whose first type code is not AQFT yields
\* no list of blocks and no text.
C8_HeaderChecked ==
    ( /\ pc \in {"dumped", "crashed"}
      /\ Len(buf) >= 8
      /\ BE32(SubSeq(buf, 1, 4)) # KEY_AQFT )
        => (pc = "dumped" /\ list = <<>> /\ text = <<>>)

\* C9: when the decoded list holds a block whose type code is in no
\* dictionary entry, rsdump returns an error status, in full and in
\* header-only mode.
C9_UnknownKeyFatal ==
    ( /\ pc = "dumped"
      /\ \E i \in 1..Len(list) : ~find_block_functions(list[i].key) )
        => err # 0

\* the offset of the header of the i-th node, and the offset of the first
\* byte behind its payload
HeaderAt(nodes, i) == nodes[i].ptr - HEADER_SIZE

PayloadEnd(nodes, i) == nodes[i].ptr + nodes[i].size

\* C10: the list parse_file returns is in preorder.  The first node is the
\* block at offset 0; the node after a superblock is the block whose header
\* starts the superblock's payload (for an empty superblock: the block behind
\* it); the node after a leaf is the block behind the leaf's payload; the
\* nodes are in the order of their headers in the file; and the blocks whose
\* header lies within a superblock's payload lie within it entirely.
C10_Preorder ==
    (pc = "dumped" /\ list # <<>>) =>
        /\ HeaderAt(list, 1) = 0
        /\ \A i \in 1..(Len(list) - 1) :
               HeaderAt(list, i + 1) = IF superblock(list[i].key)
                                       THEN list[i].ptr
                                       ELSE PayloadEnd(list, i)
        /\ \A i \in 1..Len(list) : \A j \in 1..Len(list) :
               /\ i < j => HeaderAt(list, i) < HeaderAt(list, j)
               /\ (i < j /\ superblock(list[i].key)
                         /\ HeaderAt(list, j) < PayloadEnd(list, i))
                      => PayloadEnd(list, j) <= PayloadEnd(list, i)
        /\ PayloadEnd(list, Len(list)) <= Len(buf)

\* C10, a case with two levels of nesting, an empty superblock inside, and a
\* superblock behind the payload of the first
C10_Witness ==
    /\ pc = "dumped" /\ Len(list) = 4
    /\ superblock(list[1].key) /\ superblock(list[2].key)
    /\ PayloadEnd(list, 2) <= PayloadEnd(list, 1)
    /\ HeaderAt(list, 3) = list[2].ptr
    /\ PayloadEnd(list, 3) = PayloadEnd(list, 2)
    /\ list[3].size = 0 /\ superblock(list[3].key)
    /\ HeaderAt(list, 4) = PayloadEnd(list, 1)
    /\ list[1].size > 0

----------------------------------------------------------------------------
(* Properties of the text dump (Spec)                                       *)

\* the position of the first BODY block of a list (behind its end when it has
\* none)
FirstBody(nodes) ==
    IF CountKey(nodes, KEY_BODY) = 0 THEN Len(nodes) + 1
    ELSE CHOOSE i \in 1..Len(nodes) :
             /\ nodes[i].key = KEY_BODY
             /\ \A j \in 1..(i - 1) : nodes[j].key # KEY_BODY

\* the blocks a dump is asked to show
Asked(nodes, header_only) ==
    IF header_only THEN SubSeq(nodes, 1, FirstBody(nodes) - 1) ELSE nodes

\* the block has a record: its key is registered and its dump function
\* accepts it
Dumpable(node, config) ==
    find_block_functions(node.key) /\ dump_block(node, config).err = 0

\* the records of consecutive blocks, one after the other
RECURSIVE RecordsOf(_, _)
RecordsOf(nodes, config) ==
    IF nodes = <<>> THEN <<>>
    ELSE IF ~Dumpable(Head(nodes), config) THEN <<>>
    ELSE LET d == dump_block(Head(nodes), config)
         IN  d.lines \o RecordsOf(Tail(nodes), d.config)

RECURSIVE AllDumpable(_, _)
AllDumpable(nodes, config) ==
    \/ nodes = <<>>
    \/ /\ Dumpable(Head(nodes), config)
       /\ AllDumpable(Tail(nodes), dump_block(Head(nodes), config).config)

\* C11: dump_list writes the records of the blocks in list order and nothing
\* else; a dump that succeeds has written the record of every block it was
\* asked to show; a header-only dump of a list whose blocks before the first
\* BODY block all have a record writes exactly their records and returns
\* success, so neither the BODY record nor any later record is written.
C11_DumpInListOrder ==
    pc = "dumped" =>
        /\ \E k \in 0..Len(Asked(list, just_header)) :
               /\ AllDumpable(SubSeq(list, 1, k), NewConfig)
               /\ text = RecordsOf(SubSeq(list, 1, k), NewConfig)
        /\ err = 0 =>
               /\ AllDumpable(Asked(list, just_header), NewConfig)
               /\ text = RecordsOf(Asked(list, just_header), NewConfig)
        /\ ( /\ just_header
             /\ CountKey(list, KEY_BODY) > 0
             /\ AllDumpable(Asked(list, TRUE), NewConfig) )
               => (err = 0 /\ text = RecordsOf(Asked(list, TRUE), NewConfig))

\* a header-only dump of a list with blocks before, at and behind its first
\* BODY block
C11_Witness ==
    /\ pc = "dumped"
    /\ just_header
    /\ err = 0
    /\ FirstBody(list) > 2
    /\ FirstBody(list) < Len(list)
    /\ Len(text) = 4

----------------------------------------------------------------------------
(* Files of leaf blocks, dumped and regenerated (SpecLeaf)                  *)

\* most leaf blocks of an input file
MaxLeaves == 2

\* the wire image of a word and of a block
WireWord(w) == <<w[1] \div 256, w[1] % 256, w[2] \div 256, w[2] % 256>>

Block(key, payload) == Bytes4(key) \o Bytes4(Len(payload)) \o payload

\* file timestamps, in seconds since 1904: none, the first second, the last
\* second before 1970, 1970 itself and later, and the largest
Timestamps ==
    { Word(0), Word(1), Word(EPOCH_OFFSET - 1), Word(EPOCH_OFFSET),
      Word(EPOCH_OFFSET + 1), <<65535, 65535>> }

DoubleOf(digits) == (CHOOSE d \in DoubleImages : d.s = digits).img

FloatOf(digits) == (CHOOSE d \in FloatTexts : d.p20 = digits).img

\* n samples of (1.0, -0.5)
RECURSIVE Samples(_)
Samples(n) ==
    IF n = 0 THEN <<>>
    ELSE FloatOf(" 1.00000000000000000000") \o FloatOf("-0.50000000000000000000")
             \o Samples(n - 1)

\* n bytes of no particular pattern
HashBytes(n) == [i \in 1..n |-> (7 * i + 1) % 256]

\* leaf blocks one byte shorter than the struct of their type, and a cnst
\* block that declares the 16 bytes of its struct and has 15
ShortBlocks ==
    {Block(k, HashBytes(StructSize(k) - 1))
        : k \in {KEY_cnst, KEY_rtag, KEY_fbin, KEY_dbrf, KEY_afft}}
        \cup {Bytes4(KEY_cnst) \o Bytes4(StructSize(KEY_cnst))
                  \o HashBytes(StructSize(KEY_cnst) - 1)}

\* fbin blocks of another format or another type, and an afft block of three
\* samples behind an fbin block of each kind
FormatBlocks ==
    {Block(KEY_fbin, Bytes4(f) \o Bytes4(t)) \o tail
        : f \in {BINFORMAT_CVIQ, BINFORMAT_DBRA}, t \in {BINTYPE_FLT4, BINTYPE_FLT8},
          tail \in {<<>>, Block(KEY_afft, Samples(3))}}

\* blocks with double fields: each double of the model as rxloss and as
\* scalar_two, and a swep block
DoubleBlocks ==
    {Block(KEY_dbrf, d.img) : d \in DoubleTexts}
        \cup {Block(KEY_scal, DoubleOf("0.00000010000000000000") \o d.img)
                  : d \in DoubleTexts}
        \cup {Block(KEY_swep, Bytes4(258)
                                 \o DoubleOf("0.50000000000000000000")
                                 \o DoubleOf("0.10000000000000000555")
                                 \o DoubleOf("0.00000010000000000000")
                                 \o Bytes4(2))}

\* the leaf blocks input files are built from
LeafBlocks ==
    {Block(KEY_mcda, WireWord(t)) : t \in Timestamps}
        \cup {Block(KEY_gps1, DoubleOf("0.50000000000000000000")
                                 \o DoubleOf("0.10000000000000000555")
                                 \o DoubleOf("0.00000000000000000000")
                                 \o WireWord(t)) : t \in Timestamps}
        \cup {Block(KEY_fbin, Bytes4(BINFORMAT_CVIQ) \o Bytes4(BINTYPE_FLT4))}
        \cup {Block(k, Samples(n)) : k \in {KEY_afft, KEY_ifft}, n \in 1..3}
        \cup {Block(KEY_hasi, HashBytes(n)) : n \in {3, 4, MAX_ARGC - 2, MAX_ARGC - 1}}
        \cup ShortBlocks
        \cup FormatBlocks
        \cup DoubleBlocks

\* a binary input file grows by one leaf block
PutBlock ==
    /\ pc = "input"
    /\ Len(parse_file(buf).nodes) <= MaxLeaves
    /\ \E b \in LeafBlocks : buf' = buf \o b
    /\ UNCHANGED <<pc, little, just_header, list, text, out, err, gen_err, fix_err,
                   list0, wrote, endlist, overrun, stack>>

\* the input file starts as the header of an empty root block
InitLeaf ==
    /\ pc = "input"
    /\ little \in BOOLEAN
    /\ buf = Block(KEY_AQFT, <<>>)
    /\ just_header = FALSE
    /\ list = <<>>
    /\ text = <<>>
    /\ out = <<>>
    /\ err = 0
    /\ gen_err = 0
    /\ fix_err = 0
    /\ list0 = <<>>
    /\ wrote = FALSE
    /\ endlist = <<>>
    /\ overrun = FALSE
    /\ stack = <<>>

NextLeaf == PutBlock \/ Rsdump \/ Regen

SpecLeaf == InitLeaf /\ [][NextLeaf]_vars

\* the blocks of the input file, as the decoder lists them
Decoded == parse_file(buf).nodes

\* the timestamp of an mcda or gps1 node: the last field of its struct
TimeOf(node) == WordAt(SubSeq(node.data, StructSize(node.key) - 3, StructSize(node.key)))

\* C12: a file timestamp T of an mcda or gps1 block, any 32-bit value
\* including 0 and values below the epoch offset, comes back as T when the
\* block is dumped and the text is parsed again, and the parsing succeeds.
C12_EpochRoundTrip ==
    ( /\ pc = "regen"
      /\ ~just_header
      /\ err = 0
      /\ \A i \in 1..Len(Decoded) : Decoded[i].key \in {KEY_AQFT, KEY_mcda, KEY_gps1} )
        => /\ gen_err = 0
           /\ Len(list) = Len(Decoded) + 1
           /\ \A i \in 2..Len(Decoded) :
                  /\ list[i + 1].key = Decoded[i].key
                  /\ TimeOf(list[i + 1]) = TimeOf(Decoded[i])

\* the text has the record of an afft or ifft block with n sample lines,
\* numbered from 0 on
SampleRecordIn(lines, key, n) ==
    \E s \in 1..Len(lines) :
        /\ lines[s] = RawLine(strkey(key))
        /\ s + n + 1 <= Len(lines)
        /\ \A j \in 1..n : lines[s + j].t = "iq" /\ lines[s + j].val[1] = j - 1
        /\ lines[s + n + 1] = BlankLine

\* C14: for an afft or ifft block of n >= 1 samples behind an fbin block that
\* declares cviq and flt4, the dump has n sample lines numbered 0 to n - 1,
\* and parsing the text back succeeds with a node of 8n bytes, for every n.
C14_SampleBlockRoundTrip ==
    ( /\ pc = "regen"
      /\ ~just_header
      /\ err = 0
      /\ Len(Decoded) = 3
      /\ Decoded[2].key = KEY_fbin
      /\ Decoded[3].key \in {KEY_afft, KEY_ifft} )
        => /\ SampleRecordIn(text, Decoded[3].key, Decoded[3].size \div IQ_SIZE)
           /\ gen_err = 0
           /\ Len(list) = 4
           /\ list[4].key = Decoded[3].key
           /\ list[4].size = Decoded[3].size

\* C15: the payload of a hasi block that the decoder accepts comes back byte
\* for byte when the block is dumped and the text is parsed again, whatever
\* its length, 255 bytes or more included.
C15_HasiRoundTrip ==
    ( /\ pc = "regen"
      /\ ~just_header
      /\ err = 0
      /\ \A i \in 1..Len(Decoded) : Decoded[i].key \in {KEY_AQFT, KEY_hasi} )
        => /\ gen_err = 0
           /\ Len(list) = Len(Decoded) + 1
           /\ \A i \in 2..Len(Decoded) :
                  /\ list[i + 1].key = KEY_hasi
                  /\ list[i + 1].size = Decoded[i].size
                  /\ list[i + 1].data = Decoded[i].data

----------------------------------------------------------------------------
(* Text files of leaf records, encoded and decoded again (SpecEnc)          *)

\* most records of a text input file before its last piece is added
MaxEncRecords == 2

Unsigned(n) == Num(FALSE, FALSE, Word(n))

Minus(n) == Num(TRUE, FALSE, Word(n))

Chars4(key) == Str(Bytes4(key))

\* a record: the type-code line, the lines of the fields and the blank line
Record(key, lines) == <<NameLine(key)>> \o lines \o <<BlankLine>>

FbinRecord ==
    Record(KEY_fbin, << ParamLine("format", <<Chars4(BINFORMAT_CVIQ)>>),
                        ParamLine("type", <<Chars4(BINTYPE_FLT4)>>) >>)

\* n sample lines of (1.0, -0.5), as dump_block_afft writes them
SampleLines(n) ==
    [j \in 1..n |-> IqLine(j - 1, " 1.00000000000000000000", "-0.50000000000000000000")]

\* a line that is neither blank nor a sample ("zz")
JunkLine == RawLine(<<122, 122>>)

\* the pieces text input files are built from: complete records of every
\* leaf type, records with a field line missing, empty or not numeric,
\* records cut off by the end of the file, and sample records of 1 to 4 lines
\* behind an fbin record
EncPieces ==
    {<<NameLine(k), BlankLine>> : k \in {KEY_AQFT, KEY_HEAD, KEY_BODY}}
        \cup {<<NameLine(KEY_END)>>}
        \cup {Record(KEY_rtag, <<ParamLine("rtag", <<Unsigned(16909060)>>)>>),
              Record(KEY_rtag, <<ParamLine("rtag", <<>>)>>),
              Record(KEY_rtag, <<ParamLine("rtag", <<Str(<<97, 98, 99>>)>>)>>),
              Record(KEY_rtag, <<>>),
              <<NameLine(KEY_rtag)>>}
        \cup {Record(KEY_cnst, << ParamLine("nchannels", <<Unsigned(1)>>),
                                  ParamLine("nranges", v),
                                  ParamLine("nsweeps", <<Unsigned(16909060)>>),
                                  ParamLine("iqindicator", <<Minus(1)>>) >>)
                 : v \in {<<Unsigned(2)>>, <<>>}}
        \cup {Record(KEY_cnst, << ParamLine("nchannels", <<Unsigned(1)>>),
                                  ParamLine("nranges", <<Unsigned(2)>>) >>)}
        \cup {Record(KEY_indx, <<ParamLine("index", <<Unsigned(5)>>)>>)}
        \cup {Record(KEY_swep,
                     << ParamLine("samplespersweep", <<Unsigned(258)>>),
                        ParamLine("sweepstart", <<Dbl("0.50000000000000000000")>>),
                        ParamLine("sweepbandwidth", <<Dbl("0.10000000000000000555")>>),
                        ParamLine("sweeprate", <<Dbl("0.00000010000000000000")>>),
                        ParamLine("rangeoffset", <<Minus(2)>>) >>)}
        \cup {Record(KEY_sign,
                     << ParamLine("version", <<Str(<<49, 46, 48, 48>>)>>),
                        ParamLine("filetype", <<Str(<<82, 83, 115, 115>>)>>),
                        ParamLine("sitecode", <<Str(<<83, 73, 84, 69>>)>>),
                        ParamLine("userflags", <<Unsigned(16909060)>>),
                        ParamLine("description", <<Str(<<100, 101, 115, 99>>)>>),
                        ParamLine("ownername", <<Str(<<111, 119, 110>>)>>),
                        ParamLine("comment", <<>>) >>)}
        \cup {Record(KEY_mcda, <<ParamLine("filetimestamp", <<Unsigned(1)>>)>>),
              Record(KEY_dbrf, <<ParamLine("rxloss", <<Dbl("0.5000")>>)>>),
              Record(KEY_scal,
                     << ParamLine("scalar_one", <<Dbl("0.50000000000000000000")>>),
                        ParamLine("scalar_two", <<Dbl("0.10000000000000000555")>>) >>),
              Record(KEY_gps1,
                     << ParamLine("lat", <<Dbl("0.500000")>>),
                        ParamLine("lon", <<Dbl("0.100000")>>),
                        ParamLine("alt", <<Dbl("0.000000")>>),
                        ParamLine("gpstimestamp", <<Unsigned(1)>>) >>),
              Record(KEY_hasi, <<DataLine(<<1, 8, 15, 255>>)>>)}
        \cup {FbinRecord \o Record(k, SampleLines(n))
                 : k \in {KEY_afft, KEY_ifft}, n \in 1..4}
        \cup {FbinRecord \o Record(KEY_afft, <<JunkLine>> \o SampleLines(n)) : n \in 1..2}
        \cup {Record(KEY_afft, SampleLines(3))}

\* a text input file grows by one piece
PutPiece ==
    /\ pc = "input"
    /\ NumRecords(text) < MaxEncRecords
    /\ \E r \in EncPieces : text' = text \o r
    /\ UNCHANGED <<pc, little, buf, just_header, list, out, err, gen_err, fix_err,
                   list0, wrote, endlist, overrun, stack>>

\* the decoder on the file rsgen wrote, when read_binary_file accepts it:
\* parse_file, with the fixup of every block
Redecode ==
    /\ pc = "genned"
    /\ gen_err = 0
    /\ out # <<>>
    /\ read_binary_file(out) = 0
    /\ LET p == parse_file(out)
       IN  /\ list' = p.nodes
           /\ overrun' = p.oob
    /\ buf' = out
    /\ pc' = "redecoded"
    /\ UNCHANGED <<little, just_header, text, out, err, gen_err, fix_err, list0, wrote,
                   endlist, stack>>

NextEnc == PutPiece \/ Rsgen \/ Redecode

SpecEnc == Init /\ [][NextEnc]_vars

----------------------------------------------------------------------------
(* Properties of the leaf encoders (SpecEnc)                                *)

\* the line that ends the record whose type-code line is line s: the next
\* blank line, or the position behind the last line when the file ends first
RecordEnd(lines, s) ==
    IF \E j \in (s + 1)..Len(lines) : strlen(lines[j]) = 0
    THEN CHOOSE j \in (s + 1)..Len(lines) :
             /\ strlen(lines[j]) = 0
             /\ \A h \in (s + 1)..(j - 1) : strlen(lines[h]) # 0
    ELSE Len(lines) + 1

\* C13: a text with an afft or ifft record whose number of lines before the
\* blank line (or the end of the file) is not a multiple of 3 is refused,
\* whatever the lines hold.
C13_SampleCountMultipleOf3 ==
    pc = "genned" =>
        \A s \in 1..Len(text) :
            ( /\ text[s] \in {NameLine(KEY_afft), NameLine(KEY_ifft)}
              /\ (RecordEnd(text, s) - s - 1) % 3 # 0 )
                => gen_err # 0

\* an afft record of 4 well-formed sample lines behind a cviq/flt4 fbin
\* record was refused
C13_Witness ==
    /\ pc = "genned"
    /\ text = FbinRecord \o Record(KEY_afft, SampleLines(4))
    /\ gen_err # 0
    /\ Len(list0) = 3
    /\ list0[3].key = KEY_afft

\* the bytes rs_write puts out for a node: none behind the header of a
\* container, byte_size behind the header of a leaf
PayloadLen(node) == IF superblock(node.key) THEN 0 ELSE node.size

\* the offset in the output of the header of the i-th node
RECURSIVE OutOffset(_, _)
OutOffset(nodes, i) ==
    IF i = 1 THEN 0
    ELSE OutOffset(nodes, i - 1) + HEADER_SIZE + PayloadLen(nodes[i - 1])

Numeric(f) == f.conv \in {"d", "u", "x", "time", "lf"}

\* C17: on a little-endian host the encoder writes every number field of a
\* leaf payload most significant byte first, userflags of sign included.
C17_BigEndianFields ==
    (pc = "genned" /\ wrote /\ gen_err = 0 /\ little) =>
        LET nodes == Tail(list)
        IN  \A i \in 1..Len(nodes) :
                FixedLayout(nodes[i].key) =>
                    \A k \in 1..Len(Fields(nodes[i].key)) :
                        LET f   == Fields(nodes[i].key)[k]
                            at  == OutOffset(nodes, i) + HEADER_SIZE
                                       + FieldOffset(Fields(nodes[i].key), k)
                        IN  Numeric(f) =>
                                SubSeq(out, at + 1, at + f.width)
                                    = Reverse(FieldMem(nodes[i].data, Fields(nodes[i].key), k))

\* the type-code lines of a text
NameLines(lines) ==
    {s \in 1..Len(lines) : lines[s].t = "raw" /\ strlen(lines[s]) > 1}

\* the leaf type of a type-code line
KeyOf(line) == line_key(line.chars)

\* the 32-bit value a number token stands for
TokenWord(tok) == IF tok.neg THEN Neg32(tok.w) ELSE tok.w

\* every record of the text is a container record or a complete record of
\* cnst, rtag, indx, swep or sign: each field has its line, in struct order,
\* and each integer field has a number
IntegerRecords(lines) ==
    /\ \A j \in 1..Len(lines) : lines[j].t \in {"raw", "param"}
    /\ \A s \in NameLines(lines) :
           /\ KeyOf(lines[s]) \in {KEY_AQFT, KEY_HEAD, KEY_BODY, KEY_END, KEY_cnst,
                                   KEY_rtag, KEY_indx, KEY_swep, KEY_sign}
           /\ ~superblock(KeyOf(lines[s])) =>
                  LET fields == Fields(KeyOf(lines[s]))
                  IN  /\ RecordEnd(lines, s) = s + Len(fields) + 1
                      /\ RecordEnd(lines, s) <= Len(lines)
                      /\ \A k \in 1..Len(fields) :
                             /\ lines[s + k].t = "param"
                             /\ lines[s + k].label = fields[k].label
                             /\ fields[k].conv \in {"d", "u", "x"} =>
                                    /\ lines[s + k].val # <<>>
                                    /\ lines[s + k].val[1].k = "num"

\* C18: the value v of every integer field of a cnst, rtag, indx, swep or
\* sign record (userflags) is the value of that field in the block the
\* decoder builds from the file the encoder wrote for the text.
C18_IntegerRoundTrip ==
    (pc = "redecoded" /\ IntegerRecords(text)) =>
        /\ Len(list) = Cardinality(NameLines(text))
        /\ \A s \in NameLines(text) :
               LET key   == KeyOf(text[s])
                   nth   == Cardinality({h \in NameLines(text) : h <= s})
                   fields == Fields(key)
               IN  ~superblock(key) =>
                       /\ list[nth].key = key
                       /\ \A k \in 1..Len(fields) :
                              fields[k].conv \in {"d", "u", "x"} =>
                                  WordAt(FieldMem(list[nth].data, fields, k))
                                      = TokenWord(text[s + k].val[1])

\* a line that gives the field a value: its label, and a value of the kind
\* the conversion takes
GivesValue(line, f) ==
    /\ line.t = "param"
    /\ line.label = f.label
    /\ line.val # <<>>
    /\ line.val[1].k = (CASE f.conv \in {"d", "u", "x", "time"} -> "num"
                          [] f.conv = "lf" -> "dbl"
                          [] OTHER -> "str")

\* the record at line s lacks a value for one of its fields
LacksField(lines, s) ==
    /\ s \in NameLines(lines)
    /\ FixedLayout(KeyOf(lines[s]))
    /\ \E k \in 1..Len(Fields(KeyOf(lines[s]))) :
           \A j \in (s + 1)..(RecordEnd(lines, s) - 1) :
               ~GivesValue(lines[j], Fields(KeyOf(lines[s]))[k])

\* C19: a text with a record that is ended by a blank line and has no line
\* for a required field, or a line whose value does not convert, is refused
\* by rsgen.
C19_MissingFieldRefused ==
    pc = "genned" =>
        \A s \in 1..Len(text) :
            (LacksField(text, s) /\ RecordEnd(text, s) <= Len(text)) => gen_err # 0

\* C20: a text whose last record is cut off by the end of the file before a
\* required field is refused by rsgen: no block with a zero field is made.
C20_EndOfStreamRefused ==
    pc = "genned" =>
        \A s \in 1..Len(text) :
            (LacksField(text, s) /\ RecordEnd(text, s) > Len(text)) => gen_err # 0

----------------------------------------------------------------------------
(* Properties of the decoder on leaf blocks (SpecLeaf)                      *)

\* the node is a leaf smaller than the struct of its type
Undersized(node) ==
    /\ find_block_functions(node.key)
    /\ ~superblock(node.key)
    /\ node.size < StructSize(node.key)

----------------------------------------------------------------------------
(* Properties of the list in the encode direction (SpecEnc)                 *)

\* C22: in rsgen the list built from the text is changed by fixup_sizes only,
\* and only in the size of container blocks: behind rs_write and the
\* gen_block_xxxx functions the key, the size and the data block of every
\* node are what they were after fixup_sizes.
C22_EncodeFrame ==
    (pc = "genned" /\ wrote) =>
        /\ Len(list) = Len(list0)
        /\ \A i \in 1..Len(list) :
               /\ list[i].key = list0[i].key
               /\ list[i].data = list0[i].data
               /\ list[i].size # list0[i].size => superblock(list[i].key)
        /\ endlist = ListMem(Tail(list))

----------------------------------------------------------------------------
(* Sample blocks behind fbin blocks, in both directions (SpecFmt)           *)

\* most blocks of an input file behind its root header, and most records of a
\* text input file
MaxFmt == 3

FmtCodes == {<<f, t>> : f \in {BINFORMAT_CVIQ, BINFORMAT_DBRA},
                        t \in {BINTYPE_FLT4, BINTYPE_FLT8}}

\* fbin blocks of each format and type, and sample blocks of three samples
FmtBlocks ==
    {Block(KEY_fbin, Bytes4(c[1]) \o Bytes4(c[2])) : c \in FmtCodes}
        \cup {Block(k, Samples(3)) : k \in {KEY_afft, KEY_ifft}}

\* their records
FmtRecords ==
    {Record(KEY_fbin, << ParamLine("format", <<Chars4(c[1])>>),
                         ParamLine("type", <<Chars4(c[2])>>) >>) : c \in FmtCodes}
        \cup {Record(k, SampleLines(3)) : k \in {KEY_afft, KEY_ifft}}

\* a binary input file grows by one block
PutFmtBlock ==
    /\ pc = "input"
    /\ text = <<>>
    /\ Len(parse_file(buf).nodes) <= MaxFmt
    /\ \E b \in FmtBlocks : buf' = buf \o b
    /\ UNCHANGED <<pc, little, just_header, list, text, out, err, gen_err, fix_err,
                   list0, wrote, endlist, overrun, stack>>

\* a text input file grows by one record
PutFmtRecord ==
    /\ pc = "input"
    /\ buf = Block(KEY_AQFT, <<>>)
    /\ NumRecords(text) < MaxFmt
    /\ \E r \in FmtRecords : text' = text \o r
    /\ UNCHANGED <<pc, little, buf, just_header, list, out, err, gen_err, fix_err,
                   list0, wrote, endlist, overrun, stack>>

NextFmt == PutFmtBlock \/ PutFmtRecord \/ Rsdump \/ Rsgen

SpecFmt == InitLeaf /\ [][NextFmt]_vars

\* the last fbin node before the i-th node (0: there is none)
LastFbin(nodes, i) ==
    IF \E j \in 1..(i - 1) : nodes[j].key = KEY_fbin
    THEN CHOOSE j \in 1..(i - 1) :
             /\ nodes[j].key = KEY_fbin
             /\ \A h \in (j + 1)..(i - 1) : nodes[h].key # KEY_fbin
    ELSE 0

\* the fbin node declares format cviq and type flt4
DeclaresCviqFlt4(node) ==
    /\ WordAt(SubSeq(node.data, 1, 4)) = Word(BINFORMAT_CVIQ)
    /\ WordAt(SubSeq(node.data, 5, 8)) = Word(BINTYPE_FLT4)

\* the i-th node is an afft or ifft node whose last fbin node before it, if
\* any, does not declare cviq and flt4
SamplesWithoutFormat(nodes, i) ==
    /\ nodes[i].key \in {KEY_afft, KEY_ifft}
    /\ LastFbin(nodes, i) # 0 => ~DeclaresCviqFlt4(nodes[LastFbin(nodes, i)])

----------------------------------------------------------------------------
(* Properties of the double fields (SpecLeaf)                               *)

\* the leaf types with double fields
DoubleKeys == {KEY_dbrf, KEY_gps1, KEY_swep, KEY_scal}

\* C24: every double field of a dbrf, gps1, swep or scal block comes back
\* with the value it had when the block is dumped and the text is parsed
\* again (the gps1 blocks taken here are those with a timestamp other than 0).
C24_DoubleRoundTrip ==
    ( /\ pc = "regen"
      /\ ~just_header
      /\ err = 0
      /\ \A i \in 2..Len(Decoded) :
             /\ Decoded[i].key \in DoubleKeys
             /\ Decoded[i].key = KEY_gps1 => TimeOf(Decoded[i]) # <<0, 0>> )
        => /\ gen_err = 0
           /\ Len(list) = Len(Decoded) + 1
           /\ \A i \in 2..Len(Decoded) :
                  /\ list[i + 1].key = Decoded[i].key
                  /\ \A k \in 1..Len(Fields(Decoded[i].key)) :
                         Fields(Decoded[i].key)[k].conv = "lf" =>
                             FieldMem(list[i + 1].data, Fields(Decoded[i].key), k)
                                 = FieldMem(Decoded[i].data, Fields(Decoded[i].key), k)

----------------------------------------------------------------------------
(* parse_block, one iteration of its loop at a time (SpecParse)             *)

\* An activation of parse_block: its buffer as an offset into filedata, its
\* length, and limit, the offset where the bytes it was handed end.  length
\* is an unsigned long: a value below 0 stands for that value + 2^64, which
\* is what a subtraction that wraps around leaves.
Frame(off, length) == [off |-> off, length |-> length, limit |-> off + length]

\* a < b for two unsigned long so represented
Less64(a, b) == IF (a < 0) = (b < 0) THEN a < b ELSE b < 0

\* rsdump calls parse_file when read_binary_file returned 0, and parse_file
\* calls parse_block on the whole file
ParseFile ==
    /\ pc = "input"
    /\ read_binary_file(buf) = 0
    /\ stack' = <<Frame(0, Len(buf))>>
    /\ list' = <<>>
    /\ pc' = "parsing"
    /\ UNCHANGED <<little, buf, just_header, text, out, err, gen_err, fix_err,
                   list0, wrote, endlist, overrun>>

\* One iteration of while( length > 0 ) in the innermost activation.  For a
\* superblock the recursive call becomes a new activation, and length and
\* buffer of the calling one get the values they have once the call has
\* returned.  An access outside filedata is undefined: the process is killed
\* or parse_file comes back with no list, as in Rsdump.
ParseIter ==
    /\ pc = "parsing"
    /\ stack # <<>>
    /\ stack[Len(stack)].length # 0
    /\ LET f        == stack[Len(stack)]
           outer    == SubSeq(stack, 1, Len(stack) - 1)
           key      == Load32(endian_fixup(SubSeq(buf, f.off + 1, f.off + 4)))
           declared == Load32(endian_fixup(SubSeq(buf, f.off + 5, f.off + 8)))
           left     == f.length - HEADER_SIZE
           size     == IF left >= 0 /\ declared > left THEN left ELSE declared
           data     == f.off + HEADER_SIZE
           fix      == fixup_block(key, size)
           mem      == SubSeq(buf, data + 1, Min(data + size, Len(buf)))
           next     == [f EXCEPT !.off = data + size, !.length = left - size]
       IN  IF \/ f.off + HEADER_SIZE > Len(buf)
              \/ ~superblock(key) /\ data + Sum(fix.widths) > Len(buf)
           THEN /\ overrun' = TRUE
                /\ pc' \in {"crashed", "parsed"}
                /\ UNCHANGED <<list, stack>>
           ELSE /\ list' = Append(list,
                               IF superblock(key) THEN Node(key, size, data, <<>>)
                               ELSE Node(key, size, data, SwapFields(mem, fix.widths)))
                /\ stack' = IF superblock(key)
                            THEN outer \o <<next, Frame(data, size)>>
                            ELSE outer \o <<next>>
                /\ UNCHANGED <<pc, overrun>>
    /\ UNCHANGED <<little, buf, just_header, text, out, err, gen_err, fix_err,
                   list0, wrote, endlist>>

\* the loop of the innermost activation ends (length is 0) and parse_block
\* returns 0, the outermost activation to parse_file
ParseReturn ==
    /\ pc = "parsing"
    /\ stack # <<>>
    /\ stack[Len(stack)].length = 0
    /\ stack' = SubSeq(stack, 1, Len(stack) - 1)
    /\ pc' = IF Len(stack) = 1 THEN "parsed" ELSE "parsing"
    /\ UNCHANGED <<little, buf, just_header, list, text, out, err, gen_err, fix_err,
                   list0, wrote, endlist, overrun>>

NextParse == PutChunk \/ ParseFile \/ ParseIter \/ ParseReturn

SpecParse == Init /\ [][NextParse]_vars

\* the decoder is one sequential process: it takes its next step as long as
\* it has one
FairParse == SpecParse /\ WF_vars(ParseFile \/ ParseIter \/ ParseReturn)

----------------------------------------------------------------------------
(* Properties of the loop of parse_block (SpecParse, FairParse)             *)

\* C25: decoding terminates for every buffer: each iteration of parse_block
\* that decodes a block leaves its activation a remaining length strictly
\* below the one it found, and once parse_file has called parse_block the
\* decoder comes to return from it, without having left the buffer.
C25_DecodingTerminates ==
    /\ [][ParseIter /\ list' # list
            => Less64(stack'[Len(stack)].length, stack[Len(stack)].length)]_vars
    /\ [](pc = "parsing" => <>(pc = "parsed" /\ ~overrun))

----------------------------------------------------------------------------
(* Properties of the status of rsdump (Spec)                                *)

\* C26: an error of the decode path reaches the caller of rsdump: when
\* read_binary_file rejects the input file, rsdump returns a status other
\* than 0.
C26_DecodeErrorPropagated ==
    pc = "dumped" /\ read_binary_file(buf) # 0 => err # 0

----------------------------------------------------------------------------
(* Properties of the accesses of parse_block (SpecParse)                    *)

\* C27: parse_block stays inside the buffer: no byte outside filedata is
\* accessed, an iteration (which reads a block header) is entered only with
\* at least 8 bytes remaining, and every decoded block ends inside the file.
C27_ReadsInsideBuffer ==
    /\ ~overrun
    /\ pc = "parsing" /\ stack # <<>> /\ stack[Len(stack)].length # 0
           => ~Less64(stack[Len(stack)].length, HEADER_SIZE)
    /\ pc \in {"parsing", "parsed"}
           => \A i \in 1..Len(list) : list[i].ptr + list[i].size <= Len(buf)

\* C28: every block decoded from the payload of a superblock lies inside
\* that payload: in every activation of parse_block the blocks decoded so
\* far end at or before the end of the bytes the activation was handed.
C28_Containment ==
    pc = "parsing" => \A k \in 1..Len(stack) : stack[k].off <= stack[k].limit

----------------------------------------------------------------------------
(* Properties of what fixup_sizes writes and returns (SpecSizes)            *)

\* the nodes fixup_sizes may write to: the first with each sentinel key
SizedNodes(nodes) ==
    {FirstWithKey(nodes, k) : k \in {KEY_AQFT, KEY_HEAD, KEY_BODY}} \ {0}

\* C29: fixup_sizes leaves the list its length and order and every node its
\* key and data; the only size fields it changes are those of the first
\* AQFT, the first HEAD and the first BODY node, and when it returns failure
\* it has changed none.
C29_SizesFrame ==
    pc = "sized" =>
        /\ Len(list) = Len(list0)
        /\ \A i \in 1..Len(list0) :
               /\ list[i].key = list0[i].key
               /\ list[i].ptr = list0[i].ptr
               /\ list[i].data = list0[i].data
               /\ i \notin SizedNodes(list0) => list[i].size = list0[i].size
        /\ fix_err # 0 => list = list0

\* fixup_sizes succeeded on a list with a second HEAD and a second BODY node
C29_Witness ==
    /\ pc = "sized"
    /\ fix_err = 0
    /\ list # list0
    /\ CountKey(list0, KEY_HEAD) = 2
    /\ CountKey(list0, KEY_BODY) = 2

\* C30: fixup_sizes returns success on every list that has an AQFT, a HEAD
\* and a BODY node, a region without blocks getting the size 0.
C30_SentinelsSuffice ==
    ( /\ pc = "sized"
      /\ \A k \in {KEY_AQFT, KEY_HEAD, KEY_BODY} : FirstWithKey(list0, k) # 0 )
        => /\ fix_err = 0
           /\ list[FirstWithKey(list0, KEY_HEAD)].size = calculate_head_size(list0)
           /\ list[FirstWithKey(list0, KEY_BODY)].size = calculate_body_size(list0)

====
